---- MODULE Spec2Model ----
(***************************************************************************)
(* Remote Config condition evaluator (ConditionEvaluator and its           *)
(* comparators), modelled as a state machine whose steps are the calls and *)
(* returns of evaluateConditions / evaluateCondition / evaluateOrCondition *)
(* / evaluateAndCondition, with the leaf evaluators as operators.          *)
(*                                                                         *)
(* Representation.  A JavaScript object is a record whose DOMAIN holds the *)
(* populated fields (an absent field is absent from the DOMAIN).  A string *)
(* that the code inspects character by character is a sequence of          *)
(* one-character strings over Alphabet; enum values and map keys are       *)
(* strings.  A context value is [type |-> "string", value |-> chars] or    *)
(* [type |-> "number", value |-> integer].  The outcome of a call is       *)
(* [ok |-> TRUE, val |-> b] for `return b` and [ok |-> FALSE, val |->      *)
(* FALSE] for an exception that leaves the call.                           *)
(***************************************************************************)
EXTENDS Integers, Sequences, FiniteSets, TLC

\* src/unnamed/part_002:40
MAX_CONDITION_RECURSION_DEPTH == 10

\* 100 * 1_000_000, the modulus of instanceMicroPercentile (part_002:165)
MICRO_PERCENT_MODULUS == 100000000

Has(obj, field) == field \in DOMAIN obj

Ret(b) == [ok |-> TRUE, val |-> b]
Throw == [ok |-> FALSE, val |-> FALSE]

(***************************************************************************)
(* Strings                                                                 *)
(***************************************************************************)
Digits == <<"0", "1", "2", "3", "4", "5", "6", "7", "8", "9">>

IsDigit(c) == \E d \in 1..10 : Digits[d] = c

DigitValue(c) == (CHOOSE d \in 1..10 : Digits[d] = c) - 1

\* The characters the modelled strings are made of.
Alphabet == {"0", "1", "2", "3", "4", "5", "6", "7", "8", "9",
             ".", "-", " ", "a", "b", "("}

\* String.prototype.includes
Includes(actual, target) ==
    \E i \in 0..(Len(actual) - Len(target)) :
        \A k \in 1..Len(target) : actual[i + k] = target[k]

RECURSIVE TrimStart(_)
TrimStart(s) ==
    IF s # <<>> /\ Head(s) = " " THEN TrimStart(Tail(s)) ELSE s

RECURSIVE TrimEnd(_)
TrimEnd(s) ==
    IF s # <<>> /\ s[Len(s)] = " " THEN TrimEnd(SubSeq(s, 1, Len(s) - 1)) ELSE s

\* String.prototype.trim
Trim(s) == TrimEnd(TrimStart(s))

\* String.prototype.split: the segments of s between occurrences of sep.
RECURSIVE Split(_, _)
Split(s, sep) ==
    IF \E i \in 1..Len(s) : s[i] = sep
    THEN LET i == CHOOSE j \in 1..Len(s) :
                     s[j] = sep /\ \A k \in 1..(j - 1) : s[k] # sep
         IN  <<SubSeq(s, 1, i - 1)>> \o Split(SubSeq(s, i + 1, Len(s)), sep)
    ELSE <<s>>

RECURSIVE NatToString(_)
NatToString(n) ==
    IF n < 10 THEN <<Digits[n + 1]>>
    ELSE NatToString(n \div 10) \o <<Digits[(n % 10) + 1]>>

\* String(value) of a context value (a string or an integer number).
String(v) ==
    IF v.type = "string" THEN v.value
    ELSE IF v.value < 0 THEN <<"-">> \o NatToString(0 - v.value)
    ELSE NatToString(v.value)

(***************************************************************************)
(* Number(): the numeric value of a string, or NaN.  Over Alphabet the     *)
(* StringNumericLiteral grammar is: optional white space, an optional      *)
(* sign, decimal digits with at most one point and at least one digit,     *)
(* optional white space; or, unsigned, 0b and binary digits; the empty (or *)
(* all-blank) string is 0.  A value is held as an integer scaled by        *)
(* 10^FracDigits.                                                          *)
(***************************************************************************)
FracDigits == 4

RECURSIVE Pow10(_)
Pow10(n) == IF n = 0 THEN 1 ELSE 10 * Pow10(n - 1)

NumScale == Pow10(FracDigits)

RECURSIVE DigitsValue(_)
DigitsValue(s) ==
    IF s = <<>> THEN 0
    ELSE 10 * DigitsValue(SubSeq(s, 1, Len(s) - 1)) + DigitValue(s[Len(s)])

AllDigits(s) == \A i \in 1..Len(s) : IsDigit(s[i])

NaN == [nan |-> TRUE, val |-> 0]
Num(v) == [nan |-> FALSE, val |-> v]

\* An unsigned decimal literal: digits, digits. , .digits , digits.digits
UnsignedDecimal(s) ==
    LET parts == Split(s, ".")
    IN  IF Len(parts) = 1
        THEN IF s # <<>> /\ AllDigits(s)
             THEN Num(DigitsValue(s) * NumScale) ELSE NaN
        ELSE IF Len(parts) = 2
        THEN LET ip == parts[1]
                 fp == parts[2]
             IN  IF AllDigits(ip) /\ AllDigits(fp) /\ Len(ip) + Len(fp) > 0
                    /\ Len(fp) <= FracDigits
                 THEN Num(DigitsValue(ip) * NumScale
                          + DigitsValue(fp) * Pow10(FracDigits - Len(fp)))
                 ELSE NaN
        ELSE NaN

\* A BinaryIntegerLiteral: 0b and one or more binary digits (no sign)
IsBinaryLiteral(t) ==
    /\ Len(t) >= 3 /\ t[1] = "0" /\ t[2] = "b"
    /\ \A i \in 3..Len(t) : t[i] \in {"0", "1"}

RECURSIVE BinaryValue(_)
BinaryValue(s) ==
    IF s = <<>> THEN 0
    ELSE 2 * BinaryValue(SubSeq(s, 1, Len(s) - 1)) + DigitValue(s[Len(s)])

StringToNumber(s) ==
    LET t == Trim(s)
    IN  IF t = <<>> THEN Num(0)
        ELSE IF IsBinaryLiteral(t)
        THEN Num(BinaryValue(SubSeq(t, 3, Len(t))) * NumScale)
        ELSE IF Head(t) = "-"
        THEN LET u == UnsignedDecimal(Tail(t))
             IN  IF u.nan THEN NaN ELSE Num(0 - u.val)
        ELSE UnsignedDecimal(t)

\* Number(value) of a context value.
Number(v) ==
    IF v.type = "string" THEN StringToNumber(v.value)
    ELSE Num(v.value * NumScale)

(***************************************************************************)
(* new RegExp(target).test(actual).  Over Alphabet a pattern is a sequence *)
(* of literal characters and "." (any character); "(" opens a group that   *)
(* nothing in Alphabet closes, so a pattern holding "(" is a SyntaxError.  *)
(* test() searches: the pattern matches at some offset of actual.          *)
(***************************************************************************)
ValidRegExp(target) == \A i \in 1..Len(target) : target[i] # "("

RegExpTest(target, actual) ==
    IF ~ValidRegExp(target) THEN Throw
    ELSE Ret(\E i \in 0..(Len(actual) - Len(target)) :
                \A k \in 1..Len(target) :
                    target[k] = "." \/ actual[i + k] = target[k])

(***************************************************************************)
(* 64-bit integers of the `long` library.  An unsigned 64-bit fingerprint  *)
(* is held as three base-10^8 limbs <<hi, mid, lo>> (hi * 10^16 + mid *    *)
(* 10^8 + lo), which is also its decimal string; a signed Long is          *)
(* [neg |-> sign, mag |-> limbs of the magnitude].                         *)
(***************************************************************************)
LimbBase == MICRO_PERCENT_MODULUS

TwoTo63 == <<922, 33720368, 54775808>>
TwoTo64 == <<1844, 67440737, 9551616>>

LimbLess(x, y) ==
    \/ x[1] < y[1]
    \/ x[1] = y[1] /\ x[2] < y[2]
    \/ x[1] = y[1] /\ x[2] = y[2] /\ x[3] < y[3]

\* x - y for limbs x >= y
LimbSub(x, y) ==
    LET b3 == IF x[3] < y[3] THEN 1 ELSE 0
        l3 == x[3] - y[3] + b3 * LimbBase
        b2 == IF x[2] - b3 < y[2] THEN 1 ELSE 0
        l2 == x[2] - b3 - y[2] + b2 * LimbBase
        l1 == x[1] - b2 - y[1]
    IN  <<l1, l2, l3>>

\* long.fromString(decimal): the value wraps to a signed 64-bit integer.
LongFromString(u) ==
    IF LimbLess(u, TwoTo63) THEN [neg |-> FALSE, mag |-> u]
    ELSE [neg |-> TRUE, mag |-> LimbSub(TwoTo64, u)]

\* Long.prototype.lt(0)
LongLtZero(x) == x.neg

\* Long.prototype.negate: MIN_VALUE negates to itself.
LongNegate(x) ==
    IF x.mag = <<0, 0, 0>> THEN x
    ELSE IF x.neg /\ x.mag = TwoTo63 THEN x
    ELSE [neg |-> ~x.neg, mag |-> x.mag]

\* Long.prototype.mod(100 * 1_000_000): truncated, the sign of the dividend.
LongModMicroPercent(x) == IF x.neg THEN 0 - x.mag[3] ELSE x.mag[3]

VARIABLES
    namedConditions,      \* argument of evaluateConditions: seq of [name, condition]
    context,              \* argument of evaluateConditions
    fingerprint64,        \* farmhash.fingerprint64: hashed string -> unsigned limbs
    pc,                   \* "running", "returned" or "thrown"
    idx,                  \* position of the for-of loop of evaluateConditions
    evaluatedConditions,  \* the Map: seq of [name, value] in insertion order
    stack,                \* call stack below evaluateConditions, top last
    ret,                  \* value handed to the caller by the last return
    trace,                \* history: the calls, dispatches and returns so far
    others,               \* the other calls of evaluateConditions under way, suspended
    ml                    \* the machine-learning side: a Model, its client, its promises

vars == <<namedConditions, context, fingerprint64, pc, idx, evaluatedConditions,
          stack, ret, trace, others, ml>>

(***************************************************************************)
(* evaluatePercentCondition                                                *)
(***************************************************************************)
\* `x || 0` for an optional numeric field
OrZero(obj, field) == IF Has(obj, field) THEN obj[field] ELSE 0

\* the hashed string without the seed prefix
StringToHashSeedIgnored(percentCondition, ctx) == ctx.randomizationId

\* seedPrefix + randomizationId
StringToHash(percentCondition, ctx) ==
    LET seedPrefix == IF Has(percentCondition, "seed") /\ Len(percentCondition.seed) > 0
                      THEN percentCondition.seed \o <<".">>
                      ELSE <<>>
    IN  seedPrefix \o ctx.randomizationId

InstanceMicroPercentile(percentCondition, ctx) ==
    LET hash64 == LongFromString(fingerprint64[StringToHash(percentCondition, ctx)])
        abs64 == IF LongLtZero(hash64) THEN LongNegate(hash64) ELSE hash64
    IN  LongModMicroPercent(abs64)

\* the switch with BETWEEN testing its lower bound with gte
PercentOperatorSwitchLowerInclusive(percentOperator, instanceMicroPercentile, normalizedMicroPercent, normalizedMicroPercentLowerBound, normalizedMicroPercentUpperBound) ==
    IF percentOperator = "LESS_OR_EQUAL"
    THEN Ret(instanceMicroPercentile <= normalizedMicroPercent)
    ELSE IF percentOperator = "GREATER_THAN"
    THEN Ret(instanceMicroPercentile > normalizedMicroPercent)
    ELSE IF percentOperator = "BETWEEN"
    THEN Ret(instanceMicroPercentile >= normalizedMicroPercentLowerBound
             /\ instanceMicroPercentile <= normalizedMicroPercentUpperBound)
    ELSE Ret(FALSE)

\* the switch with BETWEEN testing its upper bound with lt
PercentOperatorSwitchUpperExclusive(percentOperator, instanceMicroPercentile, normalizedMicroPercent, normalizedMicroPercentLowerBound, normalizedMicroPercentUpperBound) ==
    IF percentOperator = "LESS_OR_EQUAL"
    THEN Ret(instanceMicroPercentile <= normalizedMicroPercent)
    ELSE IF percentOperator = "GREATER_THAN"
    THEN Ret(instanceMicroPercentile > normalizedMicroPercent)
    ELSE IF percentOperator = "BETWEEN"
    THEN Ret(instanceMicroPercentile > normalizedMicroPercentLowerBound
             /\ instanceMicroPercentile < normalizedMicroPercentUpperBound)
    ELSE Ret(FALSE)

\* the switch with the UNKNOWN and default labels above the LESS_OR_EQUAL case
PercentOperatorSwitchDefaultFallsThrough(percentOperator, instanceMicroPercentile, normalizedMicroPercent, normalizedMicroPercentLowerBound, normalizedMicroPercentUpperBound) ==
    IF percentOperator = "GREATER_THAN"
    THEN Ret(instanceMicroPercentile > normalizedMicroPercent)
    ELSE IF percentOperator = "BETWEEN"
    THEN Ret(instanceMicroPercentile > normalizedMicroPercentLowerBound
             /\ instanceMicroPercentile <= normalizedMicroPercentUpperBound)
    ELSE Ret(instanceMicroPercentile <= normalizedMicroPercent)

\* the switch with GREATER_THAN testing with gte
PercentOperatorSwitchGreaterOrEqual(percentOperator, instanceMicroPercentile, normalizedMicroPercent, normalizedMicroPercentLowerBound, normalizedMicroPercentUpperBound) ==
    IF percentOperator = "LESS_OR_EQUAL"
    THEN Ret(instanceMicroPercentile <= normalizedMicroPercent)
    ELSE IF percentOperator = "GREATER_THAN"
    THEN Ret(instanceMicroPercentile >= normalizedMicroPercent)
    ELSE IF percentOperator = "BETWEEN"
    THEN Ret(instanceMicroPercentile > normalizedMicroPercentLowerBound
             /\ instanceMicroPercentile <= normalizedMicroPercentUpperBound)
    ELSE Ret(FALSE)

\* the switch on percentOperator; UNKNOWN and every other value break out of it
PercentOperatorSwitch(percentOperator, instanceMicroPercentile, normalizedMicroPercent, normalizedMicroPercentLowerBound, normalizedMicroPercentUpperBound) ==
    IF percentOperator = "LESS_OR_EQUAL"
    THEN Ret(instanceMicroPercentile <= normalizedMicroPercent)
    ELSE IF percentOperator = "GREATER_THAN"
    THEN Ret(instanceMicroPercentile > normalizedMicroPercent)
    ELSE IF percentOperator = "BETWEEN"
    THEN Ret(instanceMicroPercentile > normalizedMicroPercentLowerBound
             /\ instanceMicroPercentile <= normalizedMicroPercentUpperBound)
    ELSE Ret(FALSE)

evaluatePercentCondition(percentCondition, ctx) ==
    IF ~Has(ctx, "randomizationId") \/ ctx.randomizationId = <<>>
    THEN Ret(FALSE)
    ELSE IF ~Has(percentCondition, "percentOperator")
            \/ percentCondition.percentOperator = ""
    THEN Ret(FALSE)
    ELSE LET normalizedMicroPercent == OrZero(percentCondition, "microPercent")
             range == IF Has(percentCondition, "microPercentRange")
                      THEN percentCondition.microPercentRange
                      ELSE [none |-> TRUE]
             normalizedMicroPercentUpperBound == OrZero(range, "microPercentUpperBound")
             normalizedMicroPercentLowerBound == OrZero(range, "microPercentLowerBound")
             instanceMicroPercentile == InstanceMicroPercentile(percentCondition, ctx)
         IN  PercentOperatorSwitch(percentCondition.percentOperator,
                                   instanceMicroPercentile, normalizedMicroPercent,
                                   normalizedMicroPercentLowerBound,
                                   normalizedMicroPercentUpperBound)

(***************************************************************************)
(* Comparators                                                             *)
(***************************************************************************)
\* targetValues.some(predicateFn) for the four string predicates: the targets
\* are tested in order up to the first match; a predicate that throws ends it.
\* targetValues.some(...) reduced to the predicate on targetValues[0]
SomeTargetFirstOnly(targetValues, actual, predicate) ==
    IF targetValues = <<>> THEN Ret(FALSE)
    ELSE IF predicate = "includes" THEN Ret(Includes(actual, Head(targetValues)))
    ELSE IF predicate = "exactly" THEN Ret(Trim(actual) = Trim(Head(targetValues)))
    ELSE RegExpTest(Head(targetValues), actual)

RECURSIVE SomeTarget(_, _, _)
SomeTarget(targetValues, actual, predicate) ==
    IF targetValues = <<>> THEN Ret(FALSE)
    ELSE LET target == Head(targetValues)
             r == IF predicate = "includes" THEN Ret(Includes(actual, target))
                  ELSE IF predicate = "exactly" THEN Ret(Trim(actual) = Trim(target))
                  ELSE RegExpTest(target, actual)
         IN  IF ~r.ok THEN Throw
             ELSE IF r.val THEN Ret(TRUE)
             ELSE SomeTarget(Tail(targetValues), actual, predicate)

compareStrings(targetValues, actualValue, predicate) ==
    SomeTarget(targetValues, String(actualValue), predicate)

\* the predicates with LESS_EQUAL written as r < 0
PredicateStrictLessEqual(suffix, r) ==
    IF suffix = "LESS_THAN" THEN r < 0
    ELSE IF suffix = "LESS_EQUAL" THEN r < 0
    ELSE IF suffix = "EQUAL" THEN r = 0
    ELSE IF suffix = "NOT_EQUAL" THEN r # 0
    ELSE IF suffix = "GREATER_THAN" THEN r > 0
    ELSE r >= 0

\* The six predicateFn of the numeric and semantic-version operators, by suffix.
Predicate(suffix, r) ==
    IF suffix = "LESS_THAN" THEN r < 0
    ELSE IF suffix = "LESS_EQUAL" THEN r <= 0
    ELSE IF suffix = "EQUAL" THEN r = 0
    ELSE IF suffix = "NOT_EQUAL" THEN r # 0
    ELSE IF suffix = "GREATER_THAN" THEN r > 0
    ELSE r >= 0

\* compareNumbers without its isNaN test: every comparison with NaN is false,
\* so the ternary yields 0
compareNumbersNoNaNTest(actualValue, targetValue, suffix) ==
    LET target == StringToNumber(targetValue)
        actual == Number(actualValue)
    IN  IF target.nan \/ actual.nan THEN Predicate(suffix, 0)
        ELSE Predicate(suffix, IF actual.val < target.val THEN -1
                               ELSE IF actual.val > target.val THEN 1 ELSE 0)

\* compareNumbers with the two results of the ternary exchanged
compareNumbersSwapped(actualValue, targetValue, suffix) ==
    LET target == StringToNumber(targetValue)
        actual == Number(actualValue)
    IN  IF target.nan \/ actual.nan THEN FALSE
        ELSE Predicate(suffix, IF actual.val < target.val THEN 1
                               ELSE IF actual.val > target.val THEN -1 ELSE 0)

compareNumbers(actualValue, targetValue, suffix) ==
    LET target == StringToNumber(targetValue)
        actual == Number(actualValue)
    IN  IF target.nan \/ actual.nan THEN FALSE
        ELSE Predicate(suffix, IF actual.val < target.val THEN -1
                               ELSE IF actual.val > target.val THEN 1 ELSE 0)

\* .split('.').map(Number)
VersionSegments(s) ==
    LET parts == Split(s, ".")
    IN  [i \in 1..Len(parts) |-> StringToNumber(parts[i])]

\* the loop with the two results of its last ternary exchanged
RECURSIVE CompareSegmentsSwapped(_, _, _)
CompareSegmentsSwapped(version1, version2, i) ==
    LET version1HasSegment == i <= Len(version1)
        version2HasSegment == i <= Len(version2)
    IN  IF ~version1HasSegment THEN (IF version2HasSegment THEN -1 ELSE 0)
        ELSE IF ~version2HasSegment THEN 1
        ELSE IF version1[i].val # version2[i].val
        THEN (IF version1[i].val < version2[i].val THEN 1 ELSE -1)
        ELSE CompareSegmentsSwapped(version1, version2, i + 1)

\* the loop with a missing segment read as 0
RECURSIVE CompareSegmentsPadded(_, _, _)
CompareSegmentsPadded(version1, version2, i) ==
    LET segment1 == IF i <= Len(version1) THEN version1[i].val ELSE 0
        segment2 == IF i <= Len(version2) THEN version2[i].val ELSE 0
    IN  IF i > Len(version1) /\ i > Len(version2) THEN 0
        ELSE IF segment1 # segment2 THEN (IF segment1 < segment2 THEN -1 ELSE 1)
        ELSE CompareSegmentsPadded(version1, version2, i + 1)

\* the for (let i = 0;; i++) loop, i counted from 1
RECURSIVE CompareSegments(_, _, _)
CompareSegments(version1, version2, i) ==
    LET version1HasSegment == i <= Len(version1)
        version2HasSegment == i <= Len(version2)
    IN  IF ~version1HasSegment THEN (IF version2HasSegment THEN -1 ELSE 0)
        ELSE IF ~version2HasSegment THEN 1
        ELSE IF version1[i].val # version2[i].val
        THEN (IF version1[i].val < version2[i].val THEN -1 ELSE 1)
        ELSE CompareSegments(version1, version2, i + 1)

\* the loop over segments that may be NaN: NaN !== x holds and NaN < x does not
RECURSIVE CompareSegmentsWithNaN(_, _, _)
CompareSegmentsWithNaN(version1, version2, i) ==
    LET version1HasSegment == i <= Len(version1)
        version2HasSegment == i <= Len(version2)
    IN  IF ~version1HasSegment THEN (IF version2HasSegment THEN -1 ELSE 0)
        ELSE IF ~version2HasSegment THEN 1
        ELSE IF version1[i].nan \/ version2[i].nan THEN 1
        ELSE IF version1[i].val # version2[i].val
        THEN (IF version1[i].val < version2[i].val THEN -1 ELSE 1)
        ELSE CompareSegmentsWithNaN(version1, version2, i + 1)

\* compareSemanticVersions without its some(isNaN) test
compareSemanticVersionsNoNaNTest(actualValue, targetValue, suffix) ==
    Predicate(suffix, CompareSegmentsWithNaN(VersionSegments(String(actualValue)),
                                             VersionSegments(targetValue), 1))

\* the number of iterations the for (let i = 0;; i++) loop makes from index i
RECURSIVE CompareSegmentsIterations(_, _, _)
CompareSegmentsIterations(version1, version2, i) ==
    IF i > Len(version1) \/ i > Len(version2) THEN 1
    ELSE IF version1[i].val # version2[i].val THEN 1
    ELSE 1 + CompareSegmentsIterations(version1, version2, i + 1)

compareSemanticVersions(actualValue, targetValue, suffix) ==
    LET version1 == VersionSegments(String(actualValue))
        version2 == VersionSegments(targetValue)
    IN  IF (\E i \in 1..Len(version1) : version1[i].nan)
           \/ (\E i \in 1..Len(version2) : version2[i].nan)
        THEN FALSE
        ELSE Predicate(suffix, CompareSegments(version1, version2, 1))

(***************************************************************************)
(* evaluateCustomSignalCondition                                           *)
(***************************************************************************)
NumericSuffixes ==
    {"LESS_THAN", "LESS_EQUAL", "EQUAL", "NOT_EQUAL", "GREATER_THAN", "GREATER_EQUAL"}

\* the switch on customSignalOperator
CustomSignalOperatorSwitch(customSignalOperator, targetCustomSignalValues, actualCustomSignalValue) ==
    IF customSignalOperator = "STRING_CONTAINS"
    THEN compareStrings(targetCustomSignalValues, actualCustomSignalValue, "includes")
    ELSE IF customSignalOperator = "STRING_DOES_NOT_CONTAIN"
    THEN Ret(~compareStrings(targetCustomSignalValues,
                             actualCustomSignalValue, "includes").val)
    ELSE IF customSignalOperator = "STRING_EXACTLY_MATCHES"
    THEN compareStrings(targetCustomSignalValues, actualCustomSignalValue, "exactly")
    ELSE IF customSignalOperator = "STRING_CONTAINS_REGEX"
    THEN compareStrings(targetCustomSignalValues, actualCustomSignalValue, "regex")
    ELSE IF \E x \in NumericSuffixes : customSignalOperator = "NUMERIC_" \o x
    THEN Ret(compareNumbers(
             actualCustomSignalValue, targetCustomSignalValues[1],
             CHOOSE x \in NumericSuffixes : customSignalOperator = "NUMERIC_" \o x))
    ELSE IF \E x \in NumericSuffixes : customSignalOperator = "SEMANTIC_VERSION_" \o x
    THEN Ret(compareSemanticVersions(
             actualCustomSignalValue, targetCustomSignalValues[1],
             CHOOSE x \in NumericSuffixes :
                 customSignalOperator = "SEMANTIC_VERSION_" \o x))
    ELSE Ret(FALSE)

\* evaluateCustomSignalCondition without its test of targetCustomSignalValues.length:
\* on an empty list some() is false, Number(undefined) is NaN and
\* undefined.split throws
evaluateCustomSignalConditionNoLengthTest(customSignalCondition, ctx) ==
    IF \/ ~Has(customSignalCondition, "customSignalOperator")
       \/ ~Has(customSignalCondition, "customSignalKey")
       \/ ~Has(customSignalCondition, "targetCustomSignalValues")
    THEN Ret(FALSE)
    ELSE LET customSignalOperator == customSignalCondition.customSignalOperator
             customSignalKey == customSignalCondition.customSignalKey
             targetCustomSignalValues == customSignalCondition.targetCustomSignalValues
         IN  IF customSignalOperator = "" \/ customSignalKey = ""
             THEN Ret(FALSE)
             ELSE IF ~Has(ctx, customSignalKey)
             THEN Ret(FALSE)
             ELSE IF Len(targetCustomSignalValues) = 0
             THEN IF customSignalOperator = "STRING_DOES_NOT_CONTAIN" THEN Ret(TRUE)
                  ELSE IF \E x \in NumericSuffixes :
                              customSignalOperator = "SEMANTIC_VERSION_" \o x
                  THEN Throw
                  ELSE Ret(FALSE)
             ELSE CustomSignalOperatorSwitch(customSignalOperator,
                                             targetCustomSignalValues,
                                             ctx[customSignalKey])

evaluateCustomSignalCondition(customSignalCondition, ctx) ==
    IF \/ ~Has(customSignalCondition, "customSignalOperator")
       \/ ~Has(customSignalCondition, "customSignalKey")
       \/ ~Has(customSignalCondition, "targetCustomSignalValues")
    THEN Ret(FALSE)
    ELSE LET customSignalOperator == customSignalCondition.customSignalOperator
             customSignalKey == customSignalCondition.customSignalKey
             targetCustomSignalValues == customSignalCondition.targetCustomSignalValues
         IN  IF customSignalOperator = "" \/ customSignalKey = ""
             THEN Ret(FALSE)
             ELSE IF Len(targetCustomSignalValues) = 0
             THEN Ret(FALSE)
             ELSE IF ~Has(ctx, customSignalKey)
             THEN Ret(FALSE)
             ELSE CustomSignalOperatorSwitch(customSignalOperator,
                                             targetCustomSignalValues,
                                             ctx[customSignalKey])

(***************************************************************************)
(* evaluateCondition as a function of its arguments: the outcome of the    *)
(* call evaluateCondition(condition, ctx, nestingLevel).                   *)
(***************************************************************************)
\* `orCondition.conditions || []`
SubConditions(junction) ==
    IF Has(junction, "conditions") THEN junction.conditions ELSE <<>>

\* the dispatch with the false branch tested before the true branch
VariantFalseFirst(condition) ==
    IF Has(condition, "orCondition") THEN "orCondition"
    ELSE IF Has(condition, "andCondition") THEN "andCondition"
    ELSE IF Has(condition, "false") THEN "false"
    ELSE IF Has(condition, "true") THEN "true"
    ELSE IF Has(condition, "percent") THEN "percent"
    ELSE IF Has(condition, "customSignal") THEN "customSignal"
    ELSE "none"

\* The branch evaluateCondition takes below the depth cap: the first of the
\* six fields, in the order of the if statements, that is populated.
Variant(condition) ==
    IF Has(condition, "orCondition") THEN "orCondition"
    ELSE IF Has(condition, "andCondition") THEN "andCondition"
    ELSE IF Has(condition, "true") THEN "true"
    ELSE IF Has(condition, "false") THEN "false"
    ELSE IF Has(condition, "percent") THEN "percent"
    ELSE IF Has(condition, "customSignal") THEN "customSignal"
    ELSE "none"

\* the depth test with > for >=
AtDepthCapOffByOne(nestingLevel) == nestingLevel > MAX_CONDITION_RECURSION_DEPTH

AtDepthCap(nestingLevel) == nestingLevel >= MAX_CONDITION_RECURSION_DEPTH

\* The branches of evaluateCondition that call no evaluateCondition.
evaluateLeaf(condition, ctx) ==
    LET v == Variant(condition)
    IN  IF v = "true" THEN Ret(TRUE)
        ELSE IF v = "false" THEN Ret(FALSE)
        ELSE IF v = "percent" THEN evaluatePercentCondition(condition.percent, ctx)
        ELSE IF v = "customSignal"
        THEN evaluateCustomSignalCondition(condition.customSignal, ctx)
        ELSE Ret(FALSE)

RECURSIVE evaluateCondition(_, _, _)
RECURSIVE evaluateOrCondition(_, _, _, _)
RECURSIVE evaluateAndCondition(_, _, _, _)

evaluateCondition(condition, ctx, nestingLevel) ==
    IF AtDepthCap(nestingLevel) THEN Ret(FALSE)
    ELSE IF Variant(condition) = "orCondition"
    THEN evaluateOrCondition(SubConditions(condition.orCondition), ctx,
                             nestingLevel + 1, 1)
    ELSE IF Variant(condition) = "andCondition"
    THEN evaluateAndCondition(SubConditions(condition.andCondition), ctx,
                              nestingLevel + 1, 1)
    ELSE evaluateLeaf(condition, ctx)

\* the for-of loop of evaluateOrCondition from its i-th element on
evaluateOrCondition(subConditions, ctx, nestingLevel, i) ==
    IF i > Len(subConditions) THEN Ret(FALSE)
    ELSE LET result == evaluateCondition(subConditions[i], ctx, nestingLevel + 1)
         IN  IF ~result.ok THEN Throw
             ELSE IF result.val THEN result
             ELSE evaluateOrCondition(subConditions, ctx, nestingLevel, i + 1)

\* the for-of loop of evaluateAndCondition from its i-th element on
evaluateAndCondition(subConditions, ctx, nestingLevel, i) ==
    IF i > Len(subConditions) THEN Ret(TRUE)
    ELSE LET result == evaluateCondition(subConditions[i], ctx, nestingLevel + 1)
         IN  IF ~result.ok THEN Throw
             ELSE IF ~result.val THEN result
             ELSE evaluateAndCondition(subConditions, ctx, nestingLevel, i + 1)

(***************************************************************************)
(* The call stack.  A frame is [fn, condition, nestingLevel, i, path]:     *)
(* for fn = "evaluateCondition", condition is its argument and i = 0       *)
(* before its body has run, 1 while it waits for the evaluateOrCondition / *)
(* evaluateAndCondition it returns the value of; for the other two,        *)
(* condition is the node whose orCondition / andCondition is walked and i  *)
(* the index of the sub-condition last handed to evaluateCondition.  path  *)
(* addresses the node: <<list index, child index, child index, ...>>.      *)
(***************************************************************************)
NoValue == <<>>
Value(b) == <<b>>

Top == stack[Len(stack)]
Pop == SubSeq(stack, 1, Len(stack) - 1)

Frame(fn, condition, nestingLevel, i, path) ==
    [fn |-> fn, condition |-> condition, nestingLevel |-> nestingLevel,
     i |-> i, path |-> path]

Event(ev, frame, val) ==
    [ev |-> ev, fn |-> frame.fn, path |-> frame.path,
     nestingLevel |-> frame.nestingLevel, val |-> val]

Running == pc = "running"

\* a Map whose set moves an existing key to the end
MapSetMovesToEnd(map, name, value) ==
    LET kept == {k \in 1..Len(map) : map[k].name # name}
        pick(n) == CHOOSE k \in kept : Cardinality({x \in kept : x <= k}) = n
    IN  Append([n \in 1..Cardinality(kept) |-> map[pick(n)]],
               [name |-> name, value |-> value])

\* Map.prototype.set: an existing key keeps its place, a new one goes last.
MapSet(map, name, value) ==
    IF \E k \in 1..Len(map) : map[k].name = name
    THEN [k \in 1..Len(map) |->
             IF map[k].name = name THEN [name |-> name, value |-> value] ELSE map[k]]
    ELSE Append(map, [name |-> name, value |-> value])

(***************************************************************************)
(* evaluateConditions                                                      *)
(***************************************************************************)
\* the loop body calls evaluateCondition(namedCondition.condition, context)
EvaluateConditionsCall ==
    /\ Running /\ stack = <<>> /\ ret = NoValue
    /\ idx <= Len(namedConditions)
    /\ LET f == Frame("evaluateCondition", namedConditions[idx].condition, 0, 0, <<idx>>)
       IN  /\ stack' = <<f>>
           /\ trace' = Append(trace, Event("call", f, FALSE))
    /\ UNCHANGED <<others, ml, namedConditions, context, fingerprint64, pc, idx,
                   evaluatedConditions, ret>>

\* evaluatedConditions.set(namedCondition.name, <the value returned>)
EvaluateConditionsSet ==
    /\ Running /\ stack = <<>> /\ ret # NoValue
    /\ evaluatedConditions' =
           MapSet(evaluatedConditions, namedConditions[idx].name, ret[1])
    /\ idx' = idx + 1
    /\ ret' = NoValue
    /\ UNCHANGED <<others, ml, namedConditions, context, fingerprint64, pc, stack, trace>>

\* return evaluatedConditions
EvaluateConditionsReturn ==
    /\ Running /\ stack = <<>> /\ ret = NoValue
    /\ idx > Len(namedConditions)
    /\ pc' = "returned"
    /\ UNCHANGED <<others, ml, namedConditions, context, fingerprint64, idx,
                   evaluatedConditions, stack, ret, trace>>

(***************************************************************************)
(* evaluateCondition                                                       *)
(***************************************************************************)
EnteredEvaluateCondition ==
    /\ Running /\ stack # <<>>
    /\ Top.fn = "evaluateCondition" /\ Top.i = 0

\* if (nestingLevel >= MAX_CONDITION_RECURSION_DEPTH) return false
EvaluateConditionDepthCap ==
    /\ EnteredEvaluateCondition
    /\ AtDepthCap(Top.nestingLevel)
    /\ stack' = Pop
    /\ ret' = Value(FALSE)
    /\ trace' = Append(trace, Event("return", Top, FALSE))
    /\ UNCHANGED <<others, ml, namedConditions, context, fingerprint64, pc, idx,
                   evaluatedConditions>>

\* return this.evaluateOrCondition(condition.orCondition, context, nestingLevel + 1)
\* return this.evaluateAndCondition(condition.andCondition, context, nestingLevel + 1)
EvaluateConditionJunction ==
    /\ EnteredEvaluateCondition
    /\ ~AtDepthCap(Top.nestingLevel)
    /\ Variant(Top.condition) \in {"orCondition", "andCondition"}
    /\ LET fn == IF Variant(Top.condition) = "orCondition"
                 THEN "evaluateOrCondition" ELSE "evaluateAndCondition"
           callee == Frame(fn, Top.condition, Top.nestingLevel + 1, 0, Top.path)
       IN  /\ stack' = Append([stack EXCEPT ![Len(stack)].i = 1], callee)
           /\ trace' = trace \o <<Event("inspect", Top, FALSE),
                                  Event("call", callee, FALSE)>>
    /\ UNCHANGED <<others, ml, namedConditions, context, fingerprint64, pc, idx,
                   evaluatedConditions, ret>>

\* the true, false, percent and customSignal branches and the final return false
EvaluateConditionLeaf ==
    /\ EnteredEvaluateCondition
    /\ ~AtDepthCap(Top.nestingLevel)
    /\ Variant(Top.condition) \notin {"orCondition", "andCondition"}
    /\ LET result == evaluateLeaf(Top.condition, context)
       IN  IF result.ok
           THEN /\ stack' = Pop
                /\ ret' = Value(result.val)
                /\ pc' = pc
                /\ trace' = trace \o <<Event("inspect", Top, FALSE),
                                       Event("return", Top, result.val)>>
           ELSE \* an exception: no frame catches it, it leaves evaluateConditions
                /\ pc' = "thrown"
                /\ trace' = trace \o <<Event("inspect", Top, FALSE),
                                       Event("throw", Top, FALSE)>>
                /\ UNCHANGED <<stack, ret>>
    /\ UNCHANGED <<others, ml, namedConditions, context, fingerprint64, idx, evaluatedConditions>>

\* the value of evaluateOrCondition / evaluateAndCondition is returned as it is
EvaluateConditionReturn ==
    /\ Running /\ stack # <<>>
    /\ Top.fn = "evaluateCondition" /\ Top.i = 1
    /\ ret # NoValue
    /\ stack' = Pop
    /\ trace' = Append(trace, Event("return", Top, ret[1]))
    /\ UNCHANGED <<others, ml, namedConditions, context, fingerprint64, pc, idx,
                   evaluatedConditions, ret>>

(***************************************************************************)
(* evaluateOrCondition / evaluateAndCondition                              *)
(***************************************************************************)
InJunction(fn) == Running /\ stack # <<>> /\ Top.fn = fn

JunctionConditions(frame) ==
    IF frame.fn = "evaluateOrCondition"
    THEN SubConditions(frame.condition.orCondition)
    ELSE SubConditions(frame.condition.andCondition)

\* loops that do not stop where they should: an Or that never short-circuits,
\* an And that short-circuits on true
OrNeverStops == TRUE
AndStopsOnTrue == ret = NoValue \/ ret = Value(FALSE)

\* The loop goes on: at its start, or after a result that does not end it.
OrGoesOn == ret = NoValue \/ ret = Value(FALSE)
AndGoesOn == ret = NoValue \/ ret = Value(TRUE)

\* the call of a sub-condition at the nesting level of the junction itself
CallSubConditionSameLevel ==
    LET i == Top.i + 1
        callee == Frame("evaluateCondition", JunctionConditions(Top)[i],
                        Top.nestingLevel, 0, Append(Top.path, i))
    IN  /\ stack' = Append([stack EXCEPT ![Len(stack)].i = i], callee)
        /\ ret' = NoValue
        /\ trace' = Append(trace, Event("call", callee, FALSE))
        /\ UNCHANGED <<others, ml, namedConditions, context, fingerprint64, pc, idx,
                       evaluatedConditions>>

\* const result = this.evaluateCondition(subCondition, context, nestingLevel + 1)
CallSubCondition ==
    LET i == Top.i + 1
        callee == Frame("evaluateCondition", JunctionConditions(Top)[i],
                        Top.nestingLevel + 1, 0, Append(Top.path, i))
    IN  /\ stack' = Append([stack EXCEPT ![Len(stack)].i = i], callee)
        /\ ret' = NoValue
        /\ trace' = Append(trace, Event("call", callee, FALSE))
        /\ UNCHANGED <<others, ml, namedConditions, context, fingerprint64, pc, idx,
                       evaluatedConditions>>

ReturnFromJunction(value) ==
    /\ stack' = Pop
    /\ ret' = Value(value)
    /\ trace' = Append(trace, Event("return", Top, value))
    /\ UNCHANGED <<others, ml, namedConditions, context, fingerprint64, pc, idx,
                   evaluatedConditions>>

EvaluateOrConditionNext ==
    /\ InJunction("evaluateOrCondition")
    /\ OrGoesOn
    /\ Top.i < Len(JunctionConditions(Top))
    /\ CallSubCondition

\* if (result) return result;   and, after the loop, return false
EvaluateOrConditionReturn ==
    /\ InJunction("evaluateOrCondition")
    /\ IF OrGoesOn
       THEN Top.i >= Len(JunctionConditions(Top)) /\ ReturnFromJunction(FALSE)
       ELSE ReturnFromJunction(ret[1])

EvaluateAndConditionNext ==
    /\ InJunction("evaluateAndCondition")
    /\ AndGoesOn
    /\ Top.i < Len(JunctionConditions(Top))
    /\ CallSubCondition

\* if (!result) return result;   and, after the loop, return true
EvaluateAndConditionReturn ==
    /\ InJunction("evaluateAndCondition")
    /\ IF AndGoesOn
       THEN Top.i >= Len(JunctionConditions(Top)) /\ ReturnFromJunction(TRUE)
       ELSE ReturnFromJunction(ret[1])

(***************************************************************************)
(* The machine-learning side: JavaScript values of server responses        *)
(***************************************************************************)
\* a value is tagged with its typeof; an object carries its own properties,
\* an array its elements, a string its text, a number its decimal numeral
Undefined == [type |-> "undefined"]
Null == [type |-> "null"]
Str(text) == [type |-> "string", value |-> text]
Numeral(text) == [type |-> "number", value |-> text]
Array(elements) == [type |-> "array", value |-> elements]
Obj(properties) == [type |-> "object", value |-> properties]

\* value.key: undefined for a property the object does not have, and for any
\* property named here of a string, a number or an array
Get(value, key) ==
    IF value.type = "object" /\ key \in DOMAIN value.value
    THEN value.value[key]
    ELSE Undefined

\* the object with one property set, the object with one property deleted
With(object, key, value) == Obj((key :> value) @@ object.value)

Delete(object, key) ==
    Obj([k \in DOMAIN object.value \ {key} |-> object.value[k]])

\* if (value): every object and array, every non-empty string, every number
\* but 0
Truthy(value) ==
    CASE value.type \in {"object", "array"} -> TRUE
      [] value.type = "string" -> value.value # ""
      [] value.type = "number" -> value.value # "0"
      [] OTHER -> FALSE

\* value?.length ?? 0
Length(value) ==
    IF value.type \in {"array", "string"} THEN Len(value.value) ELSE 0

\* validator.isNonNullObject: typeof 'object', not an array, not null
isNonNullObject(value) == value.type = "object"

\* validator.isNonEmptyString
isNonEmptyString(value) == value.type = "string" /\ value.value # ""

\* deepCopy: a value equal to its argument that shares nothing with it
deepCopy(value) == value

\* the order in which a response's properties were inserted, which is the
\* order JSON.stringify writes them in
KeyOrder ==
    <<"name", "createTime", "updateTime", "etag", "modelHash", "displayName",
      "tfliteModel", "gcsTfliteUri", "automlModel", "sizeBytes",
      "activeOperations", "done", "@type">>

\* `${JSON.stringify(value)}`: the members of an object, without those whose
\* value is undefined; the elements of an array, with null for undefined; the
\* text "undefined" when the value itself is undefined.  The strings drawn
\* here hold no character that JSON escapes.
RECURSIVE JSONStringify(_), JSONMembers(_, _, _), JSONElements(_, _)
JSONStringify(value) ==
    CASE value.type = "undefined" -> "undefined"
      [] value.type = "null" -> "null"
      [] value.type = "string" -> "\"" \o value.value \o "\""
      [] value.type = "number" -> value.value
      [] value.type = "array" -> "[" \o JSONElements(value.value, 1) \o "]"
      [] value.type = "object" -> "{" \o JSONMembers(value, 1, "") \o "}"

JSONMembers(object, i, separator) ==
    IF i > Len(KeyOrder) THEN ""
    ELSE IF Get(object, KeyOrder[i]) = Undefined
         THEN JSONMembers(object, i + 1, separator)
         ELSE separator \o "\"" \o KeyOrder[i] \o "\":"
              \o JSONStringify(Get(object, KeyOrder[i]))
              \o JSONMembers(object, i + 1, ",")

JSONElements(elements, i) ==
    IF i > Len(elements) THEN ""
    ELSE (IF i = 1 THEN "" ELSE ",")
         \o (IF elements[i] = Undefined THEN "null" ELSE JSONStringify(elements[i]))
         \o JSONElements(elements, i + 1)

(***************************************************************************)
(* Model                                                                   *)
(***************************************************************************)
\* throw new FirebaseMachineLearningError(code, message)
FirebaseMachineLearningError(code, message) ==
    [ok |-> FALSE, val |-> [code |-> code, message |-> message]]

\* the clone validateAndClone returns: a tfliteModel with neither source is
\* ignored, and so is '@type'
Cloned(model) ==
    LET tmpModel == deepCopy(model)
        sourced ==
            IF /\ Truthy(Get(model, "tfliteModel"))
               /\ ~isNonEmptyString(Get(Get(model, "tfliteModel"), "gcsTfliteUri"))
               /\ ~isNonEmptyString(Get(Get(model, "tfliteModel"), "automlModel"))
            THEN Delete(tmpModel, "tfliteModel")
            ELSE tmpModel
    IN IF Truthy(Get(sourced, "@type")) THEN Delete(sourced, "@type") ELSE sourced

\* variant of validateAndClone that does not look at etag
validateAndCloneNoEtag(model) ==
    IF \/ ~isNonNullObject(model)
       \/ ~isNonEmptyString(Get(model, "name"))
       \/ ~isNonEmptyString(Get(model, "createTime"))
       \/ ~isNonEmptyString(Get(model, "updateTime"))
       \/ ~isNonEmptyString(Get(model, "displayName"))
    THEN FirebaseMachineLearningError("invalid-server-response",
             "Invalid Model response: " \o JSONStringify(model))
    ELSE Ret(Cloned(model))

\* Model.validateAndClone
validateAndClone(model) ==
    IF \/ ~isNonNullObject(model)
       \/ ~isNonEmptyString(Get(model, "name"))
       \/ ~isNonEmptyString(Get(model, "createTime"))
       \/ ~isNonEmptyString(Get(model, "updateTime"))
       \/ ~isNonEmptyString(Get(model, "displayName"))
       \/ ~isNonEmptyString(Get(model, "etag"))
    THEN FirebaseMachineLearningError("invalid-server-response",
             "Invalid Model response: " \o JSONStringify(model))
    ELSE Ret(Cloned(model))

\* new Model(model, client): the object, or what validateAndClone throws
NewModel(model, client) ==
    LET validated == validateAndClone(model)
    IN IF validated.ok
       THEN Ret([model |-> validated.val, client |-> client])
       ELSE validated

\* Model.locked
locked(this) == Length(Get(this.model, "activeOperations")) > 0


(***************************************************************************)
(* MachineLearning, its client and the promises                            *)
(***************************************************************************)
Pending == [state |-> "pending"]
Fulfilled == [state |-> "fulfilled"]
Rejected(reason) == [state |-> "rejected", reason |-> reason]

\* what a promise of the client is rejected with; this code makes no such error
ClientError == [code |-> "unknown-error", message |-> "request failed"]

\* ml.call and ml.stage: the operation of MachineLearning under way and the
\* promise it waits for; ml.response: what the client answered with;
\* ml.promise: the promise the operation returned; ml.theModel: the Model it
\* was fulfilled with; ml.waits: the promises waitForUnlocked returned;
\* ml.handled: the operations the Model passed to client.handleOperation
NoModel ==
    [call |-> "none", stage |-> "idle", response |-> NoValue, promise |-> NoValue,
     theModel |-> NoValue, waits |-> <<>>, handled |-> <<>>]

evaluatorVars ==
    <<namedConditions, context, fingerprint64, pc, idx, evaluatedConditions,
      stack, ret, trace, others>>

\* an operation is called and returns a promise that waits for `stage`
Calls(name, stage) ==
    /\ ml.stage = "idle"
    /\ ml' = [ml EXCEPT !.call = name, !.stage = stage, !.promise = Value(Pending)]
    /\ UNCHANGED evaluatorVars

\* getModel: client.getModel(modelId) is under way
getModel == Calls("getModel", "getModel")

\* options.tfliteModel.gcsTfliteUri, as signUrlIfPresent and signUrl tell it
\* apart: undefined, a string gcsRegex matches, a string it does not match
UnsignedUrls == {"undefined", "gs://bucket/blob", "blob"}

\* signUrlIfPresent(options), and the first .then of createModel and
\* updateModel when it resolves at once: with no url the client's request is
\* under way; with a url of a bucket the signing is; with any other url
\* signUrl throws, and so does the operation, which returns no promise
signUrlIfPresent(name, gcsTfliteUri) ==
    CASE gcsTfliteUri = "undefined" -> Calls(name, "request")
      [] gcsTfliteUri = "gs://bucket/blob" -> Calls(name, "signUrl")
      [] OTHER ->
           /\ ml.stage = "idle"
           /\ ml' = [ml EXCEPT !.call = name, !.stage = "thrown"]
           /\ UNCHANGED evaluatorVars

createModel(gcsTfliteUri) == signUrlIfPresent("createModel", gcsTfliteUri)

updateModel(gcsTfliteUri) == signUrlIfPresent("updateModel", gcsTfliteUri)

\* setPublishStatus: client.updateModel(modelId, options, updateMask) is under way
setPublishStatus(name) == Calls(name, "request")

publishModel == setPublishStatus("publishModel")

unpublishModel == setPublishStatus("unpublishModel")

\* the operation's promise is settled
Settles(promise) ==
    /\ ml' = [ml EXCEPT !.stage = "settled", !.promise = Value(promise)]
    /\ UNCHANGED evaluatorVars

\* blob.getSignedUrl settles: .then of signUrlIfPresent and the first .then of
\* the operation, or .catch of signUrlIfPresent
SignUrlSettles(resolved) ==
    /\ ml.stage = "signUrl"
    /\ IF resolved
       THEN ml' = [ml EXCEPT !.stage = "request"] /\ UNCHANGED evaluatorVars
       ELSE Settles(Rejected(
                FirebaseMachineLearningError("internal-error",
                    "Error during signing upload url: " \o ClientError.message).val))

\* client.createModel or client.updateModel settles: with an operation, which
\* is passed to client.handleOperation, or with an error
ClientRequestSettles(resolved) ==
    /\ ml.stage = "request"
    /\ IF resolved
       THEN ml' = [ml EXCEPT !.stage = "handleOperation"] /\ UNCHANGED evaluatorVars
       ELSE Settles(Rejected(ClientError))

\* client.getModel or client.handleOperation resolves with modelResponse:
\* the last .then of the operation, new Model(modelResponse, this.client)
ClientResponds(modelResponse) ==
    /\ ml.stage \in {"getModel", "handleOperation"}
    /\ LET made == NewModel(modelResponse, "client")
       IN ml' = [ml EXCEPT !.stage = "settled",
                           !.response = Value(modelResponse),
                           !.promise = Value(IF made.ok THEN Fulfilled
                                             ELSE Rejected(made.val)),
                           !.theModel = IF made.ok THEN Value(made.val) ELSE NoValue]
    /\ UNCHANGED evaluatorVars

\* client.getModel or client.handleOperation rejects
ClientRejects ==
    /\ ml.stage \in {"getModel", "handleOperation"}
    /\ Settles(Rejected(ClientError))

MaxWaits == 2   \* calls of waitForUnlocked on the Model

\* the promise of one call of waitForUnlocked: its state, whether the client
\* was called for it, and what the client answered with
Wait(promise, called) == [promise |-> promise, called |-> called, response |-> NoValue]

\* Model.waitForUnlocked, up to the promise it returns
waitForUnlocked ==
    /\ ml.theModel # NoValue
    /\ Len(ml.waits) < MaxWaits
    /\ LET this == ml.theModel[1]
           activeOperations == Get(this.model, "activeOperations")
       IN IF Length(activeOperations) > 0
          THEN ml' = [ml EXCEPT !.waits = Append(@, Wait(Pending, TRUE)),
                                !.handled = Append(@, activeOperations.value[1])]
          ELSE ml' = [ml EXCEPT !.waits = Append(@, Wait(Fulfilled, FALSE))]
    /\ UNCHANGED evaluatorVars

\* variant of waitForUnlockedThen that assigns whatever came back
waitForUnlockedThenUnvalidated(w, modelResponse) ==
    /\ w \in DOMAIN ml.waits
    /\ ml.waits[w].promise = Pending
    /\ ml' = [ml EXCEPT !.theModel[1].model = modelResponse,
                        !.waits[w].promise = Fulfilled,
                        !.waits[w].response = Value(modelResponse)]
    /\ UNCHANGED evaluatorVars

\* the .then of waitForUnlocked: client.handleOperation resolved with
\* modelResponse; this.model is assigned unless validateAndClone throws
waitForUnlockedThen(w, modelResponse) ==
    /\ w \in DOMAIN ml.waits
    /\ ml.waits[w].promise = Pending
    /\ LET validated == validateAndClone(modelResponse)
       IN IF validated.ok
          THEN ml' = [ml EXCEPT !.theModel[1].model = validated.val,
                                !.waits[w].promise = Fulfilled,
                                !.waits[w].response = Value(modelResponse)]
          ELSE ml' = [ml EXCEPT !.waits[w].promise = Rejected(validated.val),
                                !.waits[w].response = Value(modelResponse)]
    /\ UNCHANGED evaluatorVars

\* client.handleOperation rejected: so is the promise of waitForUnlocked
waitForUnlockedRejected(w) ==
    /\ w \in DOMAIN ml.waits
    /\ ml.waits[w].promise = Pending
    /\ ml' = [ml EXCEPT !.waits[w].promise = Rejected(ClientError)]
    /\ UNCHANGED evaluatorVars

(***************************************************************************)
(* Responses of the server                                                 *)
(***************************************************************************)
RequiredFields == {"name", "createTime", "updateTime", "displayName", "etag"}

\* MODEL_RESPONSE of the tests, without the properties Model only passes on
ModelResponse ==
    Obj([name |-> Str("projects/test-project/models/1234567"),
         createTime |-> Str("2020-02-07T23:45:23.288047Z"),
         updateTime |-> Str("2020-02-08T23:45:23.288047Z"),
         etag |-> Str("etag123"),
         displayName |-> Str("model_1")])

Operation(n) == Obj([name |-> Str("operations/" \o n), done |-> Str("no")])

\* a model with one operation under way, and with two
LockedResponse ==
    With(ModelResponse, "activeOperations", Array(<<Operation("1")>>))

TwiceLockedResponse ==
    With(With(ModelResponse, "etag", Str("etag124")),
         "activeOperations", Array(<<Operation("2"), Operation("1")>>))

ValidResponses ==
    { ModelResponse, LockedResponse, TwiceLockedResponse,
      With(ModelResponse, "activeOperations", Array(<<>>)),
      With(LockedResponse, "@type", Str("type.googleapis.com/Model")),
      With(ModelResponse, "tfliteModel", Obj([sizeBytes |-> Numeral("16")])),
      With(LockedResponse, "tfliteModel",
           Obj([gcsTfliteUri |-> Str("gs://bucket/blob"), sizeBytes |-> Numeral("16")])),
      With(ModelResponse, "tfliteModel", Obj([automlModel |-> Str("automl/1")])) }

\* no object; an object with a required string empty; one without name, one
\* with a number for etag, one with null for displayName
InvalidResponses ==
    { Null, Undefined, Str("model"), Array(<<LockedResponse>>) }
    \cup { With(ModelResponse, field, Str("")) : field \in RequiredFields }
    \cup { Delete(LockedResponse, "name"),
           With(LockedResponse, "etag", Numeral("123")),
           With(LockedResponse, "displayName", Null) }

Responses == ValidResponses \cup InvalidResponses

\* what client.handleOperation answers a waiting Model with
OperationResponses ==
    { ModelResponse, TwiceLockedResponse,
      With(LockedResponse, "@type", Str("type.googleapis.com/Model")),
      With(ModelResponse, "tfliteModel", Obj([sizeBytes |-> Numeral("16")])),
      Null, With(ModelResponse, "etag", Str("")), Delete(LockedResponse, "name") }

InitModel ==
    /\ namedConditions = <<>>
    /\ context = <<>>
    /\ fingerprint64 = <<>>
    /\ pc = "returned"
    /\ idx = 1
    /\ evaluatedConditions = <<>>
    /\ stack = <<>>
    /\ ret = NoValue
    /\ trace = <<>>
    /\ others = <<>>
    /\ ml = NoModel

NextModel ==
    \/ getModel
    \/ \E gcsTfliteUri \in UnsignedUrls : createModel(gcsTfliteUri)
    \/ \E gcsTfliteUri \in UnsignedUrls : updateModel(gcsTfliteUri)
    \/ publishModel
    \/ unpublishModel
    \/ \E resolved \in BOOLEAN : SignUrlSettles(resolved)
    \/ \E resolved \in BOOLEAN : ClientRequestSettles(resolved)
    \/ \E modelResponse \in Responses : ClientResponds(modelResponse)
    \/ ClientRejects
    \/ waitForUnlocked
    \/ \E w \in 1..MaxWaits, modelResponse \in OperationResponses :
          waitForUnlockedThen(w, modelResponse)
    \/ \E w \in 1..MaxWaits : waitForUnlockedRejected(w)

SpecModel == InitModel /\ [][NextModel]_vars

(***************************************************************************)
(* Inputs of evaluateConditions                                            *)
(***************************************************************************)
MaxConditions == 3   \* longest list of named conditions
MaxChildren == 3     \* most sub-conditions of the root of a bushy tree
MaxChain == 11       \* longest chain of single-child And/Or nodes
MaxWrap == 5         \* most single-child nodes put around a small tree

Object == <<>>       \* the object {}

True == [true |-> Object]
False == [false |-> Object]
Unrecognized == Object
Or(conditions) == [orCondition |-> [conditions |-> conditions]]
And(conditions) == [andCondition |-> [conditions |-> conditions]]

StringValue(chars) == [type |-> "string", value |-> chars]
NumberValue(n) == [type |-> "number", value |-> n]

Percent(operator, microPercent) ==
    [percent |-> [percentOperator |-> operator, microPercent |-> microPercent]]
Between(lower, upper) ==
    [percent |-> [percentOperator |-> "BETWEEN", seed |-> <<"b">>,
                  microPercentRange |-> [microPercentLowerBound |-> lower,
                                         microPercentUpperBound |-> upper]]]
Custom(operator, key, targets) ==
    [customSignal |-> [customSignalOperator |-> operator, customSignalKey |-> key,
                       targetCustomSignalValues |-> targets]]

InvalidRegex == Custom("STRING_CONTAINS_REGEX", "k", << <<"(">> >>)

\* Nodes of the malformed-data categories.
MalformedSamples ==
    { Unrecognized,
      [percent |-> [microPercent |-> MICRO_PERCENT_MODULUS]],
      Percent("UNKNOWN", MICRO_PERCENT_MODULUS),
      [customSignal |-> [customSignalKey |-> "k",
                         targetCustomSignalValues |-> << <<"1">> >>]],
      [customSignal |-> [customSignalOperator |-> "STRING_DOES_NOT_CONTAIN",
                         targetCustomSignalValues |-> << <<"1">> >>]],
      [customSignal |-> [customSignalOperator |-> "NUMERIC_NOT_EQUAL",
                         customSignalKey |-> "n"]],
      Custom("STRING_DOES_NOT_CONTAIN", "absent", << <<"1">> >>),
      Custom("NUMERIC_NOT_EQUAL", "n", << <<"a">> >>),
      Custom("NUMERIC_EQUAL", "k", << <<"1">> >>),
      Custom("SEMANTIC_VERSION_NOT_EQUAL", "n", << <<"1", ".", "a">> >>),
      Custom("SEMANTIC_VERSION_LESS_EQUAL", "k", << <<"1">> >>) }

\* Well-formed leaves (InvalidRegex and the regex lists aside).
LeafSamples ==
    { True, False,
      Percent("LESS_OR_EQUAL", 50000000),
      Percent("GREATER_THAN", 50000000),
      Between(0, MICRO_PERCENT_MODULUS),
      Custom("STRING_CONTAINS", "k", << <<"b">>, <<"a">> >>),
      Custom("STRING_DOES_NOT_CONTAIN", "k", << <<"b">>, <<"a">> >>),
      Custom("STRING_EXACTLY_MATCHES", "k", << <<" ", "1", "a">> >>),
      Custom("STRING_CONTAINS_REGEX", "k", << <<"1", ".">> >>),
      Custom("STRING_CONTAINS_REGEX", "k", << <<"a">>, <<"(">> >>),
      Custom("STRING_CONTAINS_REGEX", "k", << <<"(">>, <<"a">> >>),
      InvalidRegex,
      Custom("NUMERIC_LESS_THAN", "n", << <<"1", ".", "5">>, <<"0">> >>),
      Custom("NUMERIC_EQUAL", "m", << <<"2">> >>),
      Custom("SEMANTIC_VERSION_EQUAL", "n", << <<"1", ".", "2", ".", "0">> >>),
      Custom("SEMANTIC_VERSION_GREATER_THAN", "n", << <<"1", ".", "1">> >>) }

\* Sub-conditions of the bushy trees: one of each outcome and shape.
SubConditionSamples ==
    { True, False, InvalidRegex, Or(<<>>), And(<<>>), Or(<<False, True>>) }

\* The conditions of the lists with several named conditions.
ListSamples ==
    { True, InvalidRegex, Custom("NUMERIC_NOT_EQUAL", "n", << <<"a">> >>),
      And(<<True, Unrecognized>>) }

SeqsUpTo(S, n) == UNION {[1..k -> S] : k \in 0..n}

Junctions(children) == {Or(c) : c \in children} \cup {And(c) : c \in children}

\* n single-child nodes around a tree, Or for kinds[k] = 0 and And otherwise
RECURSIVE Wrap(_, _, _)
Wrap(n, kind, tree) ==
    IF n = 0 THEN tree
    ELSE IF kind[n] = 0 THEN Or(<<Wrap(n - 1, kind, tree)>>)
    ELSE And(<<Wrap(n - 1, kind, tree)>>)

\* all Or, all And, and the two alternations
ChainKinds ==
    { [k \in 1..(MaxChain + 1) |-> 0], [k \in 1..(MaxChain + 1) |-> 1],
      [k \in 1..(MaxChain + 1) |-> k % 2], [k \in 1..(MaxChain + 1) |-> (k + 1) % 2] }

Chains ==
    { Wrap(n, kind, leaf) : n \in 1..MaxChain, kind \in ChainKinds,
                            leaf \in {True, False, Unrecognized, InvalidRegex} }

\* every combination of populated variants
MultiVariantSamples ==
    { [f \in fields |->
          IF f = "orCondition" THEN ors
          ELSE IF f = "andCondition" THEN ands
          ELSE IF f = "percent" THEN Percent("GREATER_THAN", 0).percent
          ELSE IF f = "customSignal" THEN InvalidRegex.customSignal
          ELSE Object] :
      fields \in SUBSET {"orCondition", "andCondition", "true", "false",
                         "percent", "customSignal", "unknown"},
      ors \in {Object, [conditions |-> <<True>>]},
      ands \in {Object, [conditions |-> <<False>>]} }

SingleTrees ==
    MalformedSamples \cup LeafSamples \cup MultiVariantSamples \cup Chains
    \cup Junctions(SeqsUpTo(SubConditionSamples, MaxChildren))
    \cup Junctions({<<first, second>> : first \in {True, False}, second \in Chains})
    \cup { Wrap(n, kind, tree) :
               n \in 1..MaxWrap, kind \in ChainKinds,
               tree \in Junctions(SeqsUpTo({True, False, InvalidRegex}, 2)) }

ConditionNames == {"a", "b"}

\* lists of one named condition, and lists of several with repeated names
SingleLists == { <<[name |-> "a", condition |-> tree]>> : tree \in SingleTrees }

SeveralLists == SeqsUpTo([name : ConditionNames, condition : ListSamples], MaxConditions)

\* a context with every signal, one with none, one with no randomizationId
FullContext ==
    [randomizationId |-> <<"a">>, k |-> StringValue(<<"1", "a">>),
     n |-> StringValue(<<"1", ".", "2">>), m |-> NumberValue(2)]

Contexts ==
    { FullContext,
      [randomizationId |-> <<"a">>],
      [k |-> StringValue(<<"a">>), n |-> StringValue(<<"1">>), m |-> NumberValue(0)] }

\* the strings evaluatePercentCondition can hash with these inputs
HashedStrings == { <<"a">>, <<"b", ".", "a">> }

\* fingerprints: 5, 2^63 - 1 (the largest positive Long), 2^64 - 50000001
FingerprintSamples ==
    { <<0, 0, 5>>, <<922, 33720368, 54775807>>, <<1844, 67440736, 59551615>> }

Fingerprints == {[s \in HashedStrings |-> f] : f \in FingerprintSamples}

Init ==
    /\ \/ /\ namedConditions \in SingleLists
          /\ \/ context = FullContext /\ fingerprint64 \in Fingerprints
             \/ context \in Contexts /\ fingerprint64 = [s \in HashedStrings |-> <<0, 0, 5>>]
       \/ /\ namedConditions \in SeveralLists
          /\ context = FullContext
          /\ fingerprint64 = [s \in HashedStrings |-> <<0, 0, 5>>]
    /\ pc = "running"
    /\ idx = 1
    /\ evaluatedConditions = <<>>
    /\ stack = <<>>
    /\ ret = NoValue
    /\ trace = <<>>
    /\ others = <<>>
    /\ ml = NoModel

Next ==
    \/ EvaluateConditionsCall
    \/ EvaluateConditionsSet
    \/ EvaluateConditionsReturn
    \/ EvaluateConditionDepthCap
    \/ EvaluateConditionJunction
    \/ EvaluateConditionLeaf
    \/ EvaluateConditionReturn
    \/ EvaluateOrConditionNext
    \/ EvaluateOrConditionReturn
    \/ EvaluateAndConditionNext
    \/ EvaluateAndConditionReturn

Spec == Init /\ [][Next]_vars

(***************************************************************************)
(* Vocabulary of the properties                                            *)
(***************************************************************************)
Terminated == pc \in {"returned", "thrown"}

\* the sub-conditions evaluateCondition would walk from this node
ChildrenOf(condition) ==
    IF Has(condition, "orCondition") THEN SubConditions(condition.orCondition)
    ELSE IF Has(condition, "andCondition") THEN SubConditions(condition.andCondition)
    ELSE <<>>

RECURSIVE Descend(_, _)
Descend(condition, path) ==
    IF path = <<>> THEN condition
    ELSE Descend(ChildrenOf(condition)[Head(path)], Tail(path))

\* the node a path addresses
NodeAt(path) == Descend(namedConditions[Head(path)].condition, Tail(path))

RECURSIVE NodesOf(_)
NodesOf(condition) ==
    {condition} \cup
    UNION {NodesOf(ChildrenOf(condition)[i]) : i \in 1..Len(ChildrenOf(condition))}

AllNodes == UNION {NodesOf(namedConditions[i].condition) : i \in 1..Len(namedConditions)}

Events(ev, fn) == {j \in 1..Len(trace) : trace[j].ev = ev /\ trace[j].fn = fn}

\* the value the returned Map holds for a name
MapGet(map, name) == map[CHOOSE k \in 1..Len(map) : map[k].name = name].value

MapKeys(map) == [k \in 1..Len(map) |-> map[k].name]

IsNumericOperator(op) == \E x \in NumericSuffixes : op = "NUMERIC_" \o x
IsVersionOperator(op) == \E x \in NumericSuffixes : op = "SEMANTIC_VERSION_" \o x

\* a STRING_CONTAINS_REGEX node one of whose targets is no regular expression
HasInvalidRegex(condition) ==
    /\ Has(condition, "customSignal")
    /\ Has(condition.customSignal, "customSignalOperator")
    /\ condition.customSignal.customSignalOperator = "STRING_CONTAINS_REGEX"
    /\ Has(condition.customSignal, "targetCustomSignalValues")
    /\ \E t \in 1..Len(condition.customSignal.targetCustomSignalValues) :
           \E c \in 1..Len(condition.customSignal.targetCustomSignalValues[t]) :
               condition.customSignal.targetCustomSignalValues[t][c] = "("

\* The malformed-data categories: a node with none of the six variants; a
\* percent node with no or an UNKNOWN operator, or evaluated with no
\* randomizationId; a custom-signal node with no operator, key or target list,
\* or whose key the context lacks; a numeric or semantic-version node one of
\* whose two values is not numeric.
ListedMalformed(condition, ctx) ==
    LET fields == DOMAIN condition
        only(f) == fields \cap {"orCondition", "andCondition", "true", "false",
                                "percent", "customSignal"} = {f}
        p == condition.percent
        c == condition.customSignal
        complete == {"customSignalOperator", "customSignalKey",
                     "targetCustomSignalValues"} \subseteq DOMAIN c
        segments(chars) == Split(chars, ".")
        notNumeric(chars) == StringToNumber(chars).nan
    IN  \/ fields \cap {"orCondition", "andCondition", "true", "false",
                        "percent", "customSignal"} = {}
        \/ /\ only("percent")
           /\ \/ ~Has(p, "percentOperator")
              \/ p.percentOperator = "UNKNOWN"
              \/ ~Has(ctx, "randomizationId")
        \/ /\ only("customSignal")
           /\ \/ ~complete
              \/ complete /\ ~Has(ctx, c.customSignalKey)
              \/ /\ complete /\ Has(ctx, c.customSignalKey)
                 /\ Len(c.targetCustomSignalValues) > 0
                 /\ LET actual == String(ctx[c.customSignalKey])
                        target == c.targetCustomSignalValues[1]
                    IN  \/ /\ IsNumericOperator(c.customSignalOperator)
                           /\ notNumeric(actual) \/ notNumeric(target)
                        \/ /\ IsVersionOperator(c.customSignalOperator)
                           /\ \E v \in {actual, target} :
                                  \E i \in 1..Len(segments(v)) :
                                      notNumeric(segments(v)[i])

\* the last element of the list with the name of element i
IsLastOfItsName(i) ==
    \A j \in (i + 1)..Len(namedConditions) :
        namedConditions[j].name # namedConditions[i].name

\* C1: on lists whose only malformations are of the listed categories (no
\* target that is not a regular expression) evaluateConditions does not throw,
\* every evaluated node of a listed category returns false, and the Map it
\* returns holds for every name the value its (last) condition has when it is
\* evaluated on its own.
C1_MalformedDataIsFalse ==
    (\A node \in AllNodes : ~HasInvalidRegex(node)) =>
        /\ pc # "thrown"
        /\ \A j \in Events("return", "evaluateCondition") :
               ListedMalformed(NodeAt(trace[j].path), context) => trace[j].val = FALSE
        /\ pc = "returned" =>
               \A i \in 1..Len(namedConditions) :
                   /\ \E k \in 1..Len(evaluatedConditions) :
                          evaluatedConditions[k].name = namedConditions[i].name
                   /\ IsLastOfItsName(i) =>
                          Ret(MapGet(evaluatedConditions, namedConditions[i].name))
                              = evaluateCondition(namedConditions[i].condition, context, 0)

\* a list of two or more, one of them a malformed node, has been evaluated
C1_Witness ==
    /\ pc = "returned"
    /\ Len(namedConditions) >= 2
    /\ \A node \in AllNodes : ~HasInvalidRegex(node)
    /\ \E i, j \in 1..Len(namedConditions) :
           /\ ListedMalformed(namedConditions[i].condition, context)
           /\ namedConditions[j].name # namedConditions[i].name
           /\ MapGet(evaluatedConditions, namedConditions[j].name) = TRUE
           /\ MapGet(evaluatedConditions, namedConditions[i].name) = FALSE

\* C2: a STRING_CONTAINS_REGEX target that is not a valid regular expression
\* does not raise: evaluateConditions returns normally, whatever the list.
C2_InvalidRegexDoesNotRaise ==
    (\E node \in AllNodes : HasInvalidRegex(node)) => pc # "thrown"

\* the names of a list in the order of their first occurrences
RECURSIVE FirstOccurrences(_)
FirstOccurrences(names) ==
    IF names = <<>> THEN <<>>
    ELSE LET front == SubSeq(names, 1, Len(names) - 1)
             last == names[Len(names)]
         IN  IF \E k \in 1..Len(front) : front[k] = last
             THEN FirstOccurrences(front)
             ELSE Append(FirstOccurrences(front), last)

\* C3: the Map evaluateConditions returns iterates in the order of the input
\* list and has exactly one entry per distinct condition name.
C3_OneEntryPerNameInInputOrder ==
    pc = "returned" =>
        MapKeys(evaluatedConditions) =
            FirstOccurrences([i \in 1..Len(namedConditions) |-> namedConditions[i].name])

\* a list in which a name comes back after another name has been evaluated
C3_Witness ==
    /\ pc = "returned"
    /\ Len(namedConditions) >= 3
    /\ namedConditions[1].name = namedConditions[3].name
    /\ namedConditions[1].name # namedConditions[2].name
    /\ Len(evaluatedConditions) = 2

\* the number of evaluateCondition calls evaluateConditions made for element i
CallsFor(i) == Cardinality({j \in Events("call", "evaluateCondition") : trace[j].path = <<i>>})

\* C4: when evaluateConditions is over, each element of the input list has
\* been evaluated exactly once and the entry of each name holds the result of
\* the last element with that name.
C4_EachElementOnceLastWriteWins ==
    Terminated =>
        \A i \in 1..Len(namedConditions) :
            /\ CallsFor(i) = 1
            /\ IsLastOfItsName(i) =>
                   \E j \in Events("return", "evaluateCondition") :
                       /\ trace[j].path = <<i>>
                       /\ \E k \in 1..Len(evaluatedConditions) :
                              evaluatedConditions[k] =
                                  [name |-> namedConditions[i].name, value |-> trace[j].val]

\* tree is n single-child And/Or nodes around some node
RECURSIVE IsChain(_, _)
IsChain(tree, n) ==
    \/ n = 0
    \/ /\ Variant(tree) \in {"orCondition", "andCondition"}
       /\ Len(ChildrenOf(tree)) = 1
       /\ IsChain(ChildrenOf(tree)[1], n - 1)

\* C5: an evaluateCondition call entered with a nesting level of 10 or more
\* returns false at once: the next thing that happens is its return of false,
\* with no variant tested, no sub-condition called and no exception; and a
\* chain of 11 nested single-child And/Or nodes evaluates to false at the root.
C5_DepthCapReturnsFalse ==
    /\ \A j \in Events("call", "evaluateCondition") :
           trace[j].nestingLevel >= MAX_CONDITION_RECURSION_DEPTH =>
               /\ pc # "thrown" \/ j < Len(trace)
               /\ j < Len(trace) =>
                      trace[j + 1] = [trace[j] EXCEPT !.ev = "return", !.val = FALSE]
    /\ (Terminated /\ Len(namedConditions) = 1
        /\ IsChain(namedConditions[1].condition, 11)) =>
           evaluatedConditions = <<[name |-> namedConditions[1].name, value |-> FALSE]>>

\* a chain of 11 with True at the bottom has been evaluated, and a call was
\* made at the cap
C5_Witness ==
    /\ pc = "returned"
    /\ Len(namedConditions) = 1
    /\ namedConditions[1].condition = Wrap(11, [k \in 1..11 |-> 1], True)
    /\ \E j \in Events("call", "evaluateCondition") :
           trace[j].nestingLevel >= MAX_CONDITION_RECURSION_DEPTH

\* C6: the sub-conditions of an Or/And node evaluated at depth d are
\* evaluated at depth d + 1, so a node with n enclosing And/Or nodes is
\* evaluated at depth n; nine nested And nodes around True evaluate to true.
C6_ChildrenOneLevelDeeper ==
    /\ \A j \in Events("call", "evaluateCondition") :
           trace[j].nestingLevel = Len(trace[j].path) - 1
    /\ (pc = "returned" /\ Len(namedConditions) = 1
        /\ namedConditions[1].condition = Wrap(9, [k \in 1..9 |-> 1], True)) =>
           evaluatedConditions = <<[name |-> namedConditions[1].name, value |-> TRUE]>>

\* the six variants in the priority of the dispatch
VariantPriority ==
    <<"orCondition", "andCondition", "true", "false", "percent", "customSignal">>

Populated(condition) ==
    {k \in 1..Len(VariantPriority) : Has(condition, VariantPriority[k])}

\* the node with no variant but the one of highest priority among its own
HighestOnly(condition) ==
    LET k == CHOOSE x \in Populated(condition) : \A y \in Populated(condition) : x <= y
    IN  [f \in {VariantPriority[k]} |-> condition[f]]

\* what became of the one evaluateCondition call evaluateConditions made
RootOutcome ==
    IF pc = "thrown" THEN Throw ELSE Ret(evaluatedConditions[1].value)

\* C7: the result of a node is that of its populated variant of highest
\* priority in the order orCondition, andCondition, true, false, percent,
\* customSignal (true and false both populated: true; an empty orCondition
\* and true: false), and a node with none of the six is false.
C7_VariantPriority ==
    (Terminated /\ Len(namedConditions) = 1) =>
        LET condition == namedConditions[1].condition
        IN  /\ Populated(condition) = {} => RootOutcome = Ret(FALSE)
            /\ Populated(condition) # {} =>
                   RootOutcome = evaluateCondition(HighestOnly(condition), context, 0)
            /\ ({"true", "false"} \subseteq DOMAIN condition
                /\ DOMAIN condition \cap {"orCondition", "andCondition"} = {})
                   => RootOutcome = Ret(TRUE)
            /\ (Has(condition, "orCondition") /\ condition.orCondition = Object)
                   => RootOutcome = Ret(FALSE)

\* a node with true, false and more populated has come out true, and the
\* context is one in which its customSignal alone raises
C7_Witness ==
    /\ pc = "returned"
    /\ Len(namedConditions) = 1
    /\ {"true", "false", "percent", "customSignal"} \subseteq DOMAIN namedConditions[1].condition
    /\ DOMAIN namedConditions[1].condition \cap {"orCondition", "andCondition"} = {}
    /\ evaluatedConditions[1].value = TRUE
    /\ ~evaluateCondition([customSignal |-> namedConditions[1].condition.customSignal],
                          context, 0).ok

\* the evaluateCondition calls made below the depth cap for nodes that
\* dispatch to the given variant
CallsOfVariant(variant) ==
    {j \in Events("call", "evaluateCondition") :
        /\ trace[j].nestingLevel < MAX_CONDITION_RECURSION_DEPTH
        /\ Variant(NodeAt(trace[j].path)) = variant}

ReturnedTrue(j) ==
    \E r \in Events("return", "evaluateCondition") :
        r > j /\ trace[r].path = trace[j].path /\ trace[r].val = TRUE

\* the outcome of the i-th sub-condition of the node of call j, where the
\* code evaluates it
SubOutcome(j, i) ==
    evaluateCondition(ChildrenOf(NodeAt(trace[j].path))[i], context,
                      trace[j].nestingLevel + 2)

\* C8: an Or node evaluated below the depth cap evaluates to true if and only
\* if at least one of its sub-conditions evaluates to true (so to false when
\* the list is empty or absent).
C8_OrIsDisjunction ==
    Terminated =>
        \A j \in CallsOfVariant("orCondition") :
            ReturnedTrue(j) <=>
                \E i \in 1..Len(ChildrenOf(NodeAt(trace[j].path))) :
                    SubOutcome(j, i) = Ret(TRUE)

\* C9: an And node evaluated below the depth cap evaluates to true if and
\* only if every one of its sub-conditions evaluates to true (so to true when
\* the list is empty or absent).
C9_AndIsConjunction ==
    Terminated =>
        \A j \in CallsOfVariant("andCondition") :
            ReturnedTrue(j) <=>
                \A i \in 1..Len(ChildrenOf(NodeAt(trace[j].path))) :
                    SubOutcome(j, i) = Ret(TRUE)

\* an And node of three sub-conditions has come out true
C9_Witness ==
    /\ pc = "returned"
    /\ \E j \in CallsOfVariant("andCondition") :
           /\ ReturnedTrue(j)
           /\ Len(ChildrenOf(NodeAt(trace[j].path))) = 3

IsParent(parent, child) ==
    Len(child) = Len(parent) + 1 /\ SubSeq(child, 1, Len(parent)) = parent

\* the value that ends the loop of the junction that called the node at path
Deciding(path) ==
    Variant(NodeAt(SubSeq(path, 1, Len(path) - 1))) = "orCondition"

\* C10: the sub-conditions of an Or/And node are called strictly left to
\* right, each after the one before it returned a value that does not decide
\* the node; and when an Or sub-condition returns true (an And sub-condition
\* false) the very next event is the return of that value by the node, so no
\* later sibling is called.
C10_ShortCircuitLeftToRight ==
    /\ \A j \in Events("call", "evaluateCondition") :
           Len(trace[j].path) > 1 =>
               LET k == trace[j].path[Len(trace[j].path)]
                   before == [trace[j].path EXCEPT ![Len(trace[j].path)] = k - 1]
               IN  \/ /\ k = 1
                      /\ trace[j - 1].ev = "call"
                      /\ trace[j - 1].fn # "evaluateCondition"
                      /\ IsParent(trace[j - 1].path, trace[j].path)
                   \/ /\ k > 1
                      /\ trace[j - 1] = [ev |-> "return", fn |-> "evaluateCondition",
                                         path |-> before,
                                         nestingLevel |-> trace[j].nestingLevel,
                                         val |-> ~Deciding(trace[j].path)]
    /\ \A j \in Events("return", "evaluateCondition") :
           (Len(trace[j].path) > 1 /\ trace[j].val = Deciding(trace[j].path)
            /\ j < Len(trace)) =>
               /\ trace[j + 1].ev = "return"
               /\ trace[j + 1].fn # "evaluateCondition"
               /\ IsParent(trace[j + 1].path, trace[j].path)
               /\ trace[j + 1].val = trace[j].val

\* an Or whose first sub-condition is true and whose second would raise, and
\* one whose second lies deeper than the depth cap, have come out true
C10_Witness ==
    /\ pc = "returned"
    /\ Len(namedConditions) = 1
    /\ Variant(namedConditions[1].condition) = "orCondition"
    /\ evaluatedConditions[1].value = TRUE
    /\ LET c == ChildrenOf(namedConditions[1].condition)
       IN  /\ Len(c) >= 2
           /\ c[1] = True
           /\ \/ ~evaluateCondition(c[2], context, 0).ok
              \/ IsChain(c[2], 11)

(***************************************************************************)
(* evaluateConditions on one percent condition                             *)
(***************************************************************************)
\* thresholds and bounds next to the percentiles of the fingerprints below
MicroPercentSamples == {0, 4, 5, 6, 99999999, MICRO_PERCENT_MODULUS}

\* a PercentCondition with the fields named in `present`
PercentCondition(present, percentOperator, microPercent, microPercentRange, seed) ==
    [f \in present |->
         IF f = "percentOperator" THEN percentOperator
         ELSE IF f = "microPercent" THEN microPercent
         ELSE IF f = "microPercentRange" THEN microPercentRange
         ELSE seed]

\* a MicroPercentRange with the bounds named in `present`
MicroPercentRange(present, lower, upper) ==
    [f \in present |-> IF f = "microPercentLowerBound" THEN lower ELSE upper]

MicroPercentRanges ==
    { MicroPercentRange(present, lower, upper) :
          present \in SUBSET {"microPercentLowerBound", "microPercentUpperBound"},
          lower \in MicroPercentSamples, upper \in MicroPercentSamples }

\* LESS_OR_EQUAL and GREATER_THAN with every threshold, present or not
ThresholdConditions ==
    { PercentCondition({"percentOperator"} \cup optional, operator, microPercent,
                       Object, seed) :
          optional \in SUBSET {"microPercent", "seed"},
          operator \in {"LESS_OR_EQUAL", "GREATER_THAN"},
          microPercent \in MicroPercentSamples, seed \in {<<>>, <<"b">>} }

\* BETWEEN with every range, present or not
BetweenConditions ==
    { PercentCondition({"percentOperator"} \cup optional, "BETWEEN", 0, range, <<"b">>) :
          optional \in SUBSET {"microPercentRange", "seed"},
          range \in MicroPercentRanges }

\* every operator value, the empty one and two outside the enum's three, or none
OperatorConditions ==
    { PercentCondition(present, operator, microPercent, range, <<>>) :
          present \in SUBSET {"percentOperator", "microPercent", "microPercentRange"},
          operator \in {"LESS_OR_EQUAL", "GREATER_THAN", "BETWEEN", "UNKNOWN",
                        "EXACTLY", ""},
          microPercent \in {5, MICRO_PERCENT_MODULUS},
          range \in { MicroPercentRange({"microPercentUpperBound"}, 0, 5),
                      MicroPercentRange({"microPercentLowerBound",
                                         "microPercentUpperBound"},
                                        0, MICRO_PERCENT_MODULUS) } }

PercentConditions == ThresholdConditions \cup BetweenConditions \cup OperatorConditions

\* fingerprints: 0, 5, 2 * 10^8 - 1, 2^63 - 1, 2^63, 2^63 + 1, 2^64 - 1
PercentFingerprintSamples ==
    { <<0, 0, 0>>, <<0, 0, 5>>, <<0, 1, 99999999>>, <<922, 33720368, 54775807>>,
      TwoTo63, <<922, 33720368, 54775809>>, <<1844, 67440737, 9551615>> }

\* one named percent condition; a randomizationId with every fingerprint of the
\* two strings that can be hashed, or no randomizationId, or an empty one
InitPercent ==
    /\ namedConditions \in
           { <<[name |-> "a", condition |-> [percent |-> percentCondition]]>> :
                 percentCondition \in PercentConditions }
    /\ \/ /\ context = [randomizationId |-> <<"a">>]
          /\ fingerprint64 \in [HashedStrings -> PercentFingerprintSamples]
       \/ /\ context \in { Object, [randomizationId |-> <<>>],
                           [k |-> StringValue(<<"a">>)] }
          /\ fingerprint64 = [s \in HashedStrings |-> <<0, 0, 5>>]
    /\ pc = "running"
    /\ idx = 1
    /\ evaluatedConditions = <<>>
    /\ stack = <<>>
    /\ ret = NoValue
    /\ trace = <<>>
    /\ others = <<>>
    /\ ml = NoModel

\* the steps of evaluateConditions on a list of leaves
NextLeaf ==
    \/ EvaluateConditionsCall
    \/ EvaluateConditionLeaf
    \/ EvaluateConditionsSet
    \/ EvaluateConditionsReturn

SpecPercent == InitPercent /\ [][NextLeaf]_vars

\* the percent condition under evaluation, and what evaluateConditions made of it
ThePercent == namedConditions[1].condition.percent

HasRandomizationId == Has(context, "randomizationId") /\ context.randomizationId # <<>>

Returned == pc = "returned"

Result == evaluatedConditions[1].value

\* the percentile was computed: the call got past both early returns
PercentileComputed ==
    /\ Returned /\ HasRandomizationId
    /\ Has(ThePercent, "percentOperator") /\ ThePercent.percentOperator # ""

\* C11: for every 64-bit fingerprint, read as a signed integer and negated
\* when negative, the instanceMicroPercentile (that value modulo 100,000,000)
\* is at least 0 and less than 100,000,000.
C11_PercentileInRange ==
    PercentileComputed =>
        LET instanceMicroPercentile == InstanceMicroPercentile(ThePercent, context)
        IN  0 <= instanceMicroPercentile
            /\ instanceMicroPercentile < MICRO_PERCENT_MODULUS

\* the percent fields as the properties read them: an absent number is 0
OperatorOf(percentCondition) ==
    IF Has(percentCondition, "percentOperator")
    THEN percentCondition.percentOperator ELSE ""

NumberOrZero(obj, field) == IF field \in DOMAIN obj THEN obj[field] ELSE 0

LowerBoundOf(percentCondition) ==
    IF Has(percentCondition, "microPercentRange")
    THEN NumberOrZero(percentCondition.microPercentRange, "microPercentLowerBound")
    ELSE 0

UpperBoundOf(percentCondition) ==
    IF Has(percentCondition, "microPercentRange")
    THEN NumberOrZero(percentCondition.microPercentRange, "microPercentUpperBound")
    ELSE 0

Percentile == InstanceMicroPercentile(ThePercent, context)

FullRangeBetween ==
    /\ Returned /\ HasRandomizationId
    /\ OperatorOf(ThePercent) = "BETWEEN"
    /\ Has(ThePercent, "microPercentRange")
    /\ ThePercent.microPercentRange =
           [microPercentLowerBound |-> 0, microPercentUpperBound |-> MICRO_PERCENT_MODULUS]

\* C12 as stated: BETWEEN with lower bound 0 and upper bound 100000000 is
\* true for every context with a non-empty randomizationId.
C12_FullRangeBetweenAlwaysTrue == FullRangeBetween => Result = TRUE

\* C12: BETWEEN with lower bound 0 and upper bound 100000000 is true for a
\* context with a non-empty randomizationId exactly when the
\* instanceMicroPercentile is above 0; at percentile 0 it is false.
C12_FullRangeBetweenTrueAboveZero == FullRangeBetween => (Result = (Percentile > 0))

C12_Witness == FullRangeBetween /\ Percentile = 0 /\ Result = FALSE

\* C13: BETWEEN is true exactly when lowerBound < instanceMicroPercentile <=
\* upperBound, an absent bound or range counting as 0: a percentile equal to
\* the lower bound does not match, and one equal to the upper bound of a
\* range with lowerBound < upperBound matches.
C13_BetweenLowerExclusiveUpperInclusive ==
    (PercentileComputed /\ OperatorOf(ThePercent) = "BETWEEN") =>
        LET lowerBound == LowerBoundOf(ThePercent)
            upperBound == UpperBoundOf(ThePercent)
        IN  /\ Result = (lowerBound < Percentile /\ Percentile <= upperBound)
            /\ Percentile = lowerBound => Result = FALSE
            /\ (Percentile = upperBound /\ lowerBound < upperBound) => Result = TRUE

C13_Witness ==
    /\ PercentileComputed /\ OperatorOf(ThePercent) = "BETWEEN"
    /\ Has(ThePercent, "microPercentRange")
    /\ DOMAIN ThePercent.microPercentRange = {"microPercentUpperBound"}
    /\ Percentile = UpperBoundOf(ThePercent)
    /\ Result = TRUE

\* C14: LESS_OR_EQUAL is true exactly when instanceMicroPercentile <=
\* microPercent and GREATER_THAN exactly when instanceMicroPercentile >
\* microPercent, an absent microPercent counting as 0, so that LESS_OR_EQUAL
\* without a microPercent matches percentile 0 only.
C14_ThresholdOperators ==
    (PercentileComputed /\ OperatorOf(ThePercent) \in {"LESS_OR_EQUAL", "GREATER_THAN"}) =>
        LET microPercent == NumberOrZero(ThePercent, "microPercent")
        IN  /\ OperatorOf(ThePercent) = "LESS_OR_EQUAL" =>
                   Result = (Percentile <= microPercent)
            /\ OperatorOf(ThePercent) = "GREATER_THAN" =>
                   Result = (Percentile > microPercent)
            /\ ( /\ OperatorOf(ThePercent) = "LESS_OR_EQUAL"
                 /\ ~Has(ThePercent, "microPercent")
                 /\ Result = TRUE ) => Percentile = 0

\* C15: a percent condition is false whenever the randomizationId is absent
\* or empty, and whenever the percentOperator is absent, UNKNOWN or anything
\* but LESS_OR_EQUAL, GREATER_THAN and BETWEEN, whatever the microPercent and
\* the microPercentRange.
C15_PercentPreconditions ==
    Returned =>
        /\ ~HasRandomizationId => Result = FALSE
        /\ OperatorOf(ThePercent) \notin {"LESS_OR_EQUAL", "GREATER_THAN", "BETWEEN"} =>
               Result = FALSE

\* an UNKNOWN operator with a microPercent of 100% and a percentile below it
C15_Witness ==
    /\ PercentileComputed
    /\ OperatorOf(ThePercent) = "UNKNOWN"
    /\ NumberOrZero(ThePercent, "microPercent") = MICRO_PERCENT_MODULUS
    /\ Percentile >= 0
    /\ Result = FALSE

(***************************************************************************)
(* evaluateConditions called twice with the same arguments                 *)
(***************************************************************************)
MaxRepeated == 2     \* longest list evaluated twice

\* percent conditions without a seed, with an empty one and with seed "b",
\* and a custom signal whose evaluation throws
RepeatSamples ==
    { [percent |-> PercentCondition({"percentOperator", "microPercent"},
                                    "LESS_OR_EQUAL", 5, Object, <<>>)],
      [percent |-> PercentCondition({"percentOperator", "microPercent", "seed"},
                                    "LESS_OR_EQUAL", 5, Object, <<>>)],
      [percent |-> PercentCondition({"percentOperator", "microPercent", "seed"},
                                    "GREATER_THAN", 5, Object, <<"b">>)],
      Between(0, MICRO_PERCENT_MODULUS),
      InvalidRegex }

RepeatLists ==
    { [i \in 1..Len(conditions) |->
           [name |-> IF i = 1 THEN "a" ELSE "b", condition |-> conditions[i]]] :
      conditions \in SeqsUpTo(RepeatSamples, MaxRepeated) \ {<<>>} }

InitRepeat ==
    /\ namedConditions \in RepeatLists
    /\ context = [randomizationId |-> <<"a">>, k |-> StringValue(<<"1", "a">>)]
    /\ fingerprint64 \in [HashedStrings -> {<<0, 0, 5>>, <<0, 0, 6>>, TwoTo63}]
    /\ pc = "running"
    /\ idx = 1
    /\ evaluatedConditions = <<>>
    /\ stack = <<>>
    /\ ret = NoValue
    /\ trace = <<>>
    /\ others = <<>>
    /\ ml = NoModel

\* the caller keeps what the first call gave it and calls evaluateConditions
\* again with the same arguments: a new Map, the loop from the first element
EvaluateConditionsAgain ==
    /\ Terminated
    /\ \A j \in 1..Len(trace) : trace[j].ev # "outcome"
    /\ trace' = Append(trace, [ev |-> "outcome", fn |-> "evaluateConditions",
                               path |-> <<>>, nestingLevel |-> 0,
                               val |-> [pc |-> pc,
                                        evaluatedConditions |-> evaluatedConditions]])
    /\ pc' = "running"
    /\ idx' = 1
    /\ evaluatedConditions' = <<>>
    /\ stack' = <<>>
    /\ ret' = NoValue
    /\ UNCHANGED <<others, ml, namedConditions, context, fingerprint64>>

NextRepeat ==
    \/ EvaluateConditionsCall
    \/ EvaluateConditionLeaf
    \/ EvaluateConditionsSet
    \/ EvaluateConditionsReturn
    \/ EvaluateConditionsAgain

SpecRepeat == InitRepeat /\ [][NextRepeat]_vars

\* both calls are over
BothCallsOver == Terminated /\ Events("outcome", "evaluateConditions") # {}

FirstOutcome == trace[CHOOSE j \in Events("outcome", "evaluateConditions") : TRUE].val

PercentsOfList ==
    { namedConditions[i].condition.percent :
          i \in {j \in 1..Len(namedConditions) :
                     Has(namedConditions[j].condition, "percent")} }

\* the seed as the claim reads it: an absent seed is an empty one
SeedOf(percentCondition) ==
    IF Has(percentCondition, "seed") THEN percentCondition.seed ELSE <<>>

MaxStringLength == 3   \* longest actual string given to the string operators
MaxTargets == 2        \* most targets of a string operator
MaxNumberLength == 2   \* longest string over "1" and "." given to Number

StringsUpTo(chars, n) == SeqsUpTo(chars, n)

CustomSignalOperators ==
    { "STRING_CONTAINS", "STRING_DOES_NOT_CONTAIN", "STRING_EXACTLY_MATCHES",
      "STRING_CONTAINS_REGEX" }
    \cup {"NUMERIC_" \o x : x \in NumericSuffixes}
    \cup {"SEMANTIC_VERSION_" \o x : x \in NumericSuffixes}

\* a CustomSignalCondition with the fields named in `present`
CustomSignalCondition(present, customSignalOperator, customSignalKey, targetCustomSignalValues) ==
    [f \in present |->
         IF f = "customSignalOperator" THEN customSignalOperator
         ELSE IF f = "customSignalKey" THEN customSignalKey
         ELSE targetCustomSignalValues]

\* every operator, the empty one and one outside the enum, with every field
\* present or not, an empty key, a key the context lacks, an empty target list
PreconditionInputs ==
    { <<[customSignal |-> CustomSignalCondition(present, operator, key, targets)], ctx>> :
          present \in SUBSET {"customSignalOperator", "customSignalKey",
                              "targetCustomSignalValues"},
          operator \in CustomSignalOperators \cup {"", "UNKNOWN"},
          key \in {"k", "z", ""},
          targets \in {<<>>, << <<"1">> >>},
          ctx \in {Object, [k |-> StringValue(<<"1">>)]} }

\* the two containment operators on every actual string over "a" and "1" and
\* two numbers, against lists of targets
TargetSamples == { <<>>, <<"a">>, <<"1">>, <<"a", "a">>, <<"a", "1">>, <<"1", "a">> }

StringInputs ==
    { <<Custom(operator, "k", targets), [k |-> actual]>> :
          operator \in {"STRING_CONTAINS", "STRING_DOES_NOT_CONTAIN"},
          targets \in SeqsUpTo(TargetSamples, MaxTargets) \ {<<>>},
          actual \in {StringValue(s) : s \in StringsUpTo({"a", "1"}, MaxStringLength)}
                     \cup {NumberValue(11), NumberValue(-1)} }

\* strings given to Number and to split('.').map(Number): every string over
\* "1" and "." up to a length, and samples with blanks, signs, letters, a
\* binary literal and several segments
NumberSamples ==
    { <<"a">>, <<"-">>, <<"-", "1">>, <<" ", "1", " ">>, <<"1", "a">>,
      <<"0", "b", "1">>, <<"-", ".", "5">>, <<"2">>, <<"1", "2">>,
      <<"1", ".", "2">>, <<"2", ".", "1">>, <<"1", ".", "a">>, <<"a", ".", "1">>,
      <<"1", ".", "2", ".", "1">>, <<"1", ".", "2", ".", "0">>,
      <<"1", ".", "2", ".", "3">>, <<"1", ".", "2", ".", "4">> }

NumberStrings == StringsUpTo({"1", "."}, MaxNumberLength) \cup NumberSamples

NumericInputs ==
    { <<Custom(family \o suffix, "k", <<target>> \o further), [k |-> actual]>> :
          family \in {"NUMERIC_", "SEMANTIC_VERSION_"},
          suffix \in NumericSuffixes,
          target \in NumberStrings,
          further \in {<<>>, << <<"a">> >>},
          actual \in {StringValue(s) : s \in NumberStrings}
                     \cup {NumberValue(n) : n \in {-1, 0, 1, 12}} }

InitSignal ==
    /\ \E input \in PreconditionInputs \cup StringInputs \cup NumericInputs :
           /\ namedConditions = <<[name |-> "a", condition |-> input[1]]>>
           /\ context = input[2]
    /\ fingerprint64 = [s \in HashedStrings |-> <<0, 0, 5>>]
    /\ pc = "running"
    /\ idx = 1
    /\ evaluatedConditions = <<>>
    /\ stack = <<>>
    /\ ret = NoValue
    /\ trace = <<>>
    /\ others = <<>>
    /\ ml = NoModel

SpecSignal == InitSignal /\ [][NextLeaf]_vars

\* the custom-signal condition under evaluation, field by field
TheSignal == namedConditions[1].condition.customSignal

SignalOperator ==
    IF Has(TheSignal, "customSignalOperator") THEN TheSignal.customSignalOperator ELSE ""

SignalKey == IF Has(TheSignal, "customSignalKey") THEN TheSignal.customSignalKey ELSE ""

SignalTargets ==
    IF Has(TheSignal, "targetCustomSignalValues")
    THEN TheSignal.targetCustomSignalValues ELSE <<>>

\* the preconditions of evaluateCustomSignalCondition as the claims list them
PreconditionsMet ==
    /\ SignalOperator # "" /\ SignalKey # "" /\ SignalTargets # <<>>
    /\ SignalKey \in DOMAIN context

ActualValue == context[SignalKey]

\* C17: a custom-signal condition is false for every operator, the negated
\* ones included, whenever the operator, the key or the targets are missing,
\* the targets are empty, or the context has no value under the key.
C17_CustomSignalPreconditions ==
    (Terminated /\ ~PreconditionsMet) => (Returned /\ Result = FALSE)

\* a negated operator on an empty target list
C17_Witness ==
    /\ Returned
    /\ SignalOperator = "STRING_DOES_NOT_CONTAIN"
    /\ Has(TheSignal, "targetCustomSignalValues") /\ SignalTargets = <<>>
    /\ SignalKey \in DOMAIN context
    /\ Result = FALSE

\* target occurs in actual: actual is some string, target, some string
IsSubstring(target, actual) ==
    \E i \in 0..Len(actual), j \in 0..Len(actual) :
        i <= j /\ SubSeq(actual, i + 1, j) = target

SomeTargetIsSubstring ==
    \E t \in 1..Len(SignalTargets) : IsSubstring(SignalTargets[t], String(ActualValue))

\* the outcome of the same condition under another operator
WithOperator(operator) ==
    evaluateLeaf(Custom(operator, SignalKey, SignalTargets), context)

\* C18: with the preconditions met, STRING_CONTAINS is true exactly when some
\* target is a substring of the stringified actual value, and
\* STRING_DOES_NOT_CONTAIN exactly when none is; on every input exactly one
\* of the two is true.
C18_ContainsAndItsNegation ==
    ( /\ Terminated /\ PreconditionsMet
      /\ SignalOperator \in {"STRING_CONTAINS", "STRING_DOES_NOT_CONTAIN"} ) =>
        /\ Returned
        /\ SignalOperator = "STRING_CONTAINS" => Result = SomeTargetIsSubstring
        /\ SignalOperator = "STRING_DOES_NOT_CONTAIN" => Result = ~SomeTargetIsSubstring
        /\ WithOperator("STRING_CONTAINS").ok
        /\ WithOperator("STRING_DOES_NOT_CONTAIN").ok
        /\ WithOperator("STRING_CONTAINS").val # WithOperator("STRING_DOES_NOT_CONTAIN").val

\* only the second of two targets occurs in the actual value
C18_Witness ==
    /\ Returned /\ PreconditionsMet
    /\ SignalOperator = "STRING_CONTAINS"
    /\ Len(SignalTargets) = 2
    /\ ~IsSubstring(SignalTargets[1], String(ActualValue))
    /\ IsSubstring(SignalTargets[2], String(ActualValue))
    /\ Len(SignalTargets[2]) = 2
    /\ Result = TRUE

\* the operator of the claim's table applied to actual minus target
OperatorOnDifference(suffix, difference) ==
    CASE suffix = "LESS_THAN" -> difference < 0
      [] suffix = "LESS_EQUAL" -> difference <= 0
      [] suffix = "EQUAL" -> difference = 0
      [] suffix = "NOT_EQUAL" -> difference # 0
      [] suffix = "GREATER_THAN" -> difference > 0
      [] suffix = "GREATER_EQUAL" -> difference >= 0

SuffixOf(family) == CHOOSE x \in NumericSuffixes : SignalOperator = family \o x

\* C19: a numeric operator uses targetCustomSignalValues[0] only, further
\* targets never changing the result, and when the actual value and that
\* target both parse as numbers its result is the operator applied to the
\* sign of actual minus target.
C19_NumericOperators ==
    (Terminated /\ PreconditionsMet /\ IsNumericOperator(SignalOperator)) =>
        LET actual == Number(ActualValue)
            target == StringToNumber(SignalTargets[1])
        IN  /\ Returned
            /\ (~actual.nan /\ ~target.nan) =>
                   Result = OperatorOnDifference(SuffixOf("NUMERIC_"),
                                                 actual.val - target.val)
            /\ evaluateLeaf(Custom(SignalOperator, SignalKey, <<SignalTargets[1]>>),
                            context) = Ret(Result)

\* a second target that is no number, an actual value below the first target
C19_Witness ==
    /\ Returned /\ PreconditionsMet
    /\ SignalOperator = "NUMERIC_LESS_THAN"
    /\ Len(SignalTargets) = 2
    /\ StringToNumber(SignalTargets[2]).nan
    /\ ~Number(ActualValue).nan /\ ~StringToNumber(SignalTargets[1]).nan
    /\ Number(ActualValue).val < StringToNumber(SignalTargets[1]).val
    /\ Result = TRUE

\* some dot-separated segment of the string is not a number
HasNonNumericSegment(s) ==
    \E i \in 1..Len(Split(s, ".")) : StringToNumber(Split(s, ".")[i]).nan

\* every operator of the family is false on the input
FamilyIsFalse(family) ==
    \A x \in NumericSuffixes :
        evaluateLeaf(Custom(family \o x, SignalKey, SignalTargets), context) = Ret(FALSE)

\* C20: when the actual value or the first target is not a number, all six
\* NUMERIC operators are false, NOT_EQUAL included; when a dot-separated
\* segment of either version is not a number, all six SEMANTIC_VERSION
\* operators are false.
C20_CoercionFailureIsFalse ==
    (Terminated /\ PreconditionsMet) =>
        /\ ( /\ IsNumericOperator(SignalOperator)
             /\ \/ Number(ActualValue).nan
                \/ StringToNumber(SignalTargets[1]).nan ) =>
               (Returned /\ Result = FALSE /\ FamilyIsFalse("NUMERIC_"))
        /\ ( /\ IsVersionOperator(SignalOperator)
             /\ \/ HasNonNumericSegment(String(ActualValue))
                \/ HasNonNumericSegment(SignalTargets[1]) ) =>
               (Returned /\ Result = FALSE /\ FamilyIsFalse("SEMANTIC_VERSION_"))

\* versions that differ, one with a segment that is no number, under NOT_EQUAL
C20_Witness ==
    /\ Returned /\ PreconditionsMet
    /\ SignalOperator = "SEMANTIC_VERSION_NOT_EQUAL"
    /\ ~HasNonNumericSegment(String(ActualValue))
    /\ HasNonNumericSegment(SignalTargets[1])
    /\ Len(Split(SignalTargets[1], ".")) = 2
    /\ Result = FALSE

\* the segments of the two versions under comparison, as numbers
ActualSegments == VersionSegments(String(ActualValue))

TargetSegments == VersionSegments(SignalTargets[1])

\* a semantic-version operator on two versions all of whose segments parse
ParseableVersions ==
    /\ Terminated /\ PreconditionsMet
    /\ IsVersionOperator(SignalOperator)
    /\ ~HasNonNumericSegment(String(ActualValue))
    /\ ~HasNonNumericSegment(SignalTargets[1])

\* C21: actual "1.2" against target "1.2.0" under SEMANTIC_VERSION_EQUAL is
\* true: the missing trailing segment counts as equal.
C21_MissingTrailingSegmentIsEqual ==
    ( /\ Terminated /\ PreconditionsMet
      /\ SignalOperator = "SEMANTIC_VERSION_EQUAL"
      /\ ActualValue = StringValue(<<"1", ".", "2">>)
      /\ SignalTargets[1] = <<"1", ".", "2", ".", "0">> ) =>
        (Returned /\ Result = TRUE)

\* the indexes at which both versions have a segment and the segments differ
DifferingIndexes ==
    { i \in 1..Len(ActualSegments) :
          i <= Len(TargetSegments) /\ ActualSegments[i].val # TargetSegments[i].val }

FirstDifference == CHOOSE i \in DifferingIndexes : \A j \in DifferingIndexes : i <= j

\* C22: for two parseable versions the first index at which both have a
\* segment and the segments differ decides: the version with the smaller
\* segment there is the lesser, whatever follows and whatever the lengths.
C22_FirstDifferenceDecides ==
    (ParseableVersions /\ DifferingIndexes # {}) =>
        /\ Returned
        /\ Result = OperatorOnDifference(
                        SuffixOf("SEMANTIC_VERSION_"),
                        ActualSegments[FirstDifference].val
                            - TargetSegments[FirstDifference].val)

\* actual 1.2.3 is SEMANTIC_VERSION_LESS_THAN target 1.2.4
C22_Witness ==
    /\ ParseableVersions /\ Returned
    /\ SignalOperator = "SEMANTIC_VERSION_LESS_THAN"
    /\ ActualValue = StringValue(<<"1", ".", "2", ".", "3">>)
    /\ SignalTargets[1] = <<"1", ".", "2", ".", "4">>
    /\ Result = TRUE

\* C23: when one parseable version is a proper prefix of the other, the side
\* with segments left is the greater; the two compare equal only when both
\* run out of segments at the same index.
C23_LongerVersionIsGreater ==
    ParseableVersions =>
        /\ DifferingIndexes = {} =>
               /\ Returned
               /\ Result = OperatorOnDifference(
                               SuffixOf("SEMANTIC_VERSION_"),
                               Len(ActualSegments) - Len(TargetSegments))
        /\ (SignalOperator = "SEMANTIC_VERSION_EQUAL" /\ Returned /\ Result = TRUE) =>
               (DifferingIndexes = {} /\ Len(ActualSegments) = Len(TargetSegments))

\* the target 1.2.0 has a segment left when the actual 1.2 has run out
C23_Witness ==
    /\ ParseableVersions /\ Returned
    /\ SignalOperator = "SEMANTIC_VERSION_GREATER_EQUAL"
    /\ ActualValue = StringValue(<<"1", ".", "2">>)
    /\ SignalTargets[1] = <<"1", ".", "2", ".", "0">>
    /\ Result = FALSE

\* a SEMANTIC_VERSION operator on a pair of version strings
VersionHolds(suffix, actual, target) ==
    evaluateLeaf(Custom("SEMANTIC_VERSION_" \o suffix, "k", <<target>>),
                 [k |-> StringValue(actual)]) = Ret(TRUE)

VersionSign(actual, target) ==
    IF VersionHolds("LESS_THAN", actual, target) THEN -1
    ELSE IF VersionHolds("GREATER_THAN", actual, target) THEN 1
    ELSE 0

\* C28: on parseable versions exactly one of LESS_THAN, EQUAL and
\* GREATER_THAN holds for a pair, the sign of (a, b) is minus the sign of
\* (b, a), NOT_EQUAL is the complement of EQUAL, LESS_EQUAL is LESS_THAN or
\* EQUAL and GREATER_EQUAL is GREATER_THAN or EQUAL.
C28_VersionOrderIsConsistent ==
    ParseableVersions =>
        LET a == String(ActualValue)
            b == SignalTargets[1]
            lt == VersionHolds("LESS_THAN", a, b)
            eq == VersionHolds("EQUAL", a, b)
            gt == VersionHolds("GREATER_THAN", a, b)
        IN  /\ Returned
            /\ Result = VersionHolds(SuffixOf("SEMANTIC_VERSION_"), a, b)
            /\ (lt \/ eq \/ gt) /\ ~(lt /\ eq) /\ ~(lt /\ gt) /\ ~(eq /\ gt)
            /\ VersionSign(a, b) = 0 - VersionSign(b, a)
            /\ VersionHolds("EQUAL", b, a) = eq
            /\ VersionHolds("NOT_EQUAL", a, b) = ~eq
            /\ VersionHolds("LESS_EQUAL", a, b) = (lt \/ eq)
            /\ VersionHolds("GREATER_EQUAL", a, b) = (gt \/ eq)

\* versions of different lengths with a difference in the second segment
C28_Witness ==
    /\ ParseableVersions /\ Returned
    /\ SignalOperator = "SEMANTIC_VERSION_LESS_EQUAL"
    /\ Len(ActualSegments) = 3 /\ Len(TargetSegments) = 2
    /\ DifferingIndexes = {2}
    /\ VersionSign(String(ActualValue), SignalTargets[1]) = -1
    /\ Result = TRUE

\* the number of And/Or nodes that enclose the node an event is about
Ancestors(event) == Len(event.path) - 1

\* C26: a node with n enclosing And/Or nodes is evaluated at nesting level
\* 2n; a node with 5 or more such ancestors comes out false without being
\* inspected; no node is inspected at nesting level 10 or above.
C26_NestingLevelDoubles ==
    /\ \A j \in Events("call", "evaluateCondition") :
           trace[j].nestingLevel = 2 * Ancestors(trace[j])
    /\ \A j \in Events("return", "evaluateCondition") :
           Ancestors(trace[j]) >= 5 =>
               /\ trace[j].val = FALSE
               /\ \A k \in Events("inspect", "evaluateCondition") :
                      trace[k].path # trace[j].path
    /\ \A k \in Events("inspect", "evaluateCondition") :
           trace[k].nestingLevel < MAX_CONDITION_RECURSION_DEPTH

\* a `true` node under five And/Or nodes has come out false, and a node under
\* four was inspected at level 8
C26_Witness ==
    /\ \E j \in Events("return", "evaluateCondition") :
           /\ Ancestors(trace[j]) = 5
           /\ NodeAt(trace[j].path) = True
           /\ trace[j].val = FALSE
    /\ \E k \in Events("inspect", "evaluateCondition") :
           Ancestors(trace[k]) = 4 /\ trace[k].nestingLevel = 8

\* the percent condition under evaluation with some of its fields replaced
ThePercentWith(fields) ==
    [f \in DOMAIN ThePercent \cup DOMAIN fields |->
         IF f \in DOMAIN fields THEN fields[f] ELSE ThePercent[f]]

Matches(percentCondition) ==
    evaluateLeaf([percent |-> percentCondition], context) = Ret(TRUE)

\* C27: for a fixed seed and randomizationId a LESS_OR_EQUAL condition that is
\* true with microPercent p is true with every p' >= p, a GREATER_THAN
\* condition that is true with p is true with every p' <= p, and with the
\* same microPercent exactly one of the two operators is true.
C27_RolloutMonotonicity ==
    (PercentileComputed /\ OperatorOf(ThePercent) \in {"LESS_OR_EQUAL", "GREATER_THAN"}) =>
        LET p == NumberOrZero(ThePercent, "microPercent")
        IN  /\ (OperatorOf(ThePercent) = "LESS_OR_EQUAL" /\ Result = TRUE) =>
                   \A q \in MicroPercentSamples :
                       q >= p => Matches(ThePercentWith([microPercent |-> q]))
            /\ (OperatorOf(ThePercent) = "GREATER_THAN" /\ Result = TRUE) =>
                   \A q \in MicroPercentSamples :
                       q <= p => Matches(ThePercentWith([microPercent |-> q]))
            /\ Result = Matches(ThePercent)
            /\ Matches(ThePercentWith([percentOperator |-> "LESS_OR_EQUAL"]))
                   # Matches(ThePercentWith([percentOperator |-> "GREATER_THAN"]))

\* a percentile equal to the microPercent: LESS_OR_EQUAL is true there and at
\* every larger microPercent, GREATER_THAN is not
C27_Witness ==
    /\ PercentileComputed
    /\ OperatorOf(ThePercent) = "LESS_OR_EQUAL"
    /\ Has(ThePercent, "microPercent") /\ ThePercent.microPercent = Percentile
    /\ Percentile = 5
    /\ Result = TRUE
    /\ ~Matches(ThePercentWith([percentOperator |-> "GREATER_THAN"]))

(***************************************************************************)
(* Termination                                                             *)
(***************************************************************************)
\* a call that can take a step takes it
SpecFair == Spec /\ WF_vars(Next)

\* the semantic-version leaves of the list whose loop runs in this context
VersionLeaves ==
    { node \in AllNodes :
          /\ Has(node, "customSignal")
          /\ DOMAIN node.customSignal =
                 {"customSignalOperator", "customSignalKey", "targetCustomSignalValues"}
          /\ IsVersionOperator(node.customSignal.customSignalOperator)
          /\ node.customSignal.targetCustomSignalValues # <<>>
          /\ node.customSignal.customSignalKey \in DOMAIN context
          /\ ~HasNonNumericSegment(String(context[node.customSignal.customSignalKey]))
          /\ ~HasNonNumericSegment(node.customSignal.targetCustomSignalValues[1]) }

Min(m, n) == IF m <= n THEN m ELSE n

LoopIsBounded ==
    \A node \in VersionLeaves :
        LET version1 == VersionSegments(
                            String(context[node.customSignal.customSignalKey]))
            version2 == VersionSegments(node.customSignal.targetCustomSignalValues[1])
        IN  CompareSegmentsIterations(version1, version2, 1)
                <= Min(Len(version1), Len(version2)) + 1

DepthIsCapped ==
    \A j \in Events("call", "evaluateCondition") :
        trace[j].nestingLevel <= MAX_CONDITION_RECURSION_DEPTH

\* C29: for every finite list evaluateConditions returns after finitely many
\* steps, the recursion goes no deeper than the depth cap, and the loop of
\* compareSemanticVersions makes at most min(segments of actual, segments of
\* target) + 1 iterations.
C29_EvaluationReturns ==
    /\ <>(pc = "returned")
    /\ [](DepthIsCapped /\ LoopIsBounded)


(***************************************************************************)
(* The machine-learning side: building a Model and waiting on it           *)
(***************************************************************************)
ModelOperations ==
    {"getModel", "createModel", "updateModel", "publishModel", "unpublishModel"}

NonEmptyString(value) == value.type = "string" /\ value.value # ""

\* the response is not a non-null object, or one of its five required
\* properties is not a non-empty string
InvalidResponse(response) ==
    \/ response.type \notin {"object", "array"}
    \/ \E field \in RequiredFields : ~NonEmptyString(Get(response, field))

\* the operation's client has answered and its promise is settled
Answered == ml.stage = "settled" /\ ml.response # NoValue

RejectedWith(promise, message) ==
    promise.state = "rejected" /\ promise.reason.message = message

\* C25: every operation that builds a Model from a server response (getModel,
\* createModel, updateModel, publishModel, unpublishModel) rejects with
\* 'Invalid Model response: <json>' and yields no Model whenever the response
\* is not a non-null object or its name, createTime, updateTime, displayName
\* or etag is not a non-empty string; the json of null is null, and that of
\* the tests' response with an empty name is spelled out.
C25_InvalidResponseRejects ==
    (Answered /\ InvalidResponse(ml.response[1])) =>
        /\ ml.call \in ModelOperations
        /\ ml.theModel = NoValue
        /\ RejectedWith(ml.promise[1],
               "Invalid Model response: " \o JSONStringify(ml.response[1]))
        /\ ml.response[1] = Null =>
               RejectedWith(ml.promise[1], "Invalid Model response: null")
        /\ ml.response[1] = With(ModelResponse, "name", Str("")) =>
               RejectedWith(ml.promise[1],
                   "Invalid Model response: {\"name\":\"\","
                   \o "\"createTime\":\"2020-02-07T23:45:23.288047Z\","
                   \o "\"updateTime\":\"2020-02-08T23:45:23.288047Z\","
                   \o "\"etag\":\"etag123\",\"displayName\":\"model_1\"}")

\* createModel got the response of the completed operation, with an empty etag
C25_Witness ==
    /\ Answered
    /\ ml.call = "createModel"
    /\ ml.response[1] = With(ModelResponse, "etag", Str(""))
    /\ ml.promise[1].state = "rejected"

\* the model a Model object holds
Stored(state) == state.theModel[1].model

\* copy is the validated copy of response: the response's own properties
\* with their values, but for '@type' and for a tfliteModel with no source
ValidatedCopyOf(copy, response) ==
    /\ ~InvalidResponse(response)
    /\ copy.type = "object"
    /\ DOMAIN copy.value \subseteq DOMAIN response.value
    /\ \A key \in DOMAIN copy.value : copy.value[key] = response.value[key]
    /\ "@type" \notin DOMAIN copy.value
    /\ DOMAIN response.value \ DOMAIN copy.value \subseteq {"@type", "tfliteModel"}
    /\ "tfliteModel" \in DOMAIN response.value \ DOMAIN copy.value =>
           /\ ~NonEmptyString(Get(response.value.tfliteModel, "gcsTfliteUri"))
           /\ ~NonEmptyString(Get(response.value.tfliteModel, "automlModel"))

HoldsValidated ==
    ml.theModel # NoValue =>
        \A field \in RequiredFields : NonEmptyString(Get(Stored(ml), field))

\* one step of a call of waitForUnlocked: the call itself, or its settling
WaitStep ==
    /\ ml.theModel # NoValue
    /\ \A w \in DOMAIN ml.waits :
           ml.waits[w].promise = Pending =>
               \* a failed call leaves the stored model unchanged
               /\ ml'.waits[w].promise.state = "rejected" =>
                      ml'.theModel = ml.theModel
               \* a successful one replaces it with the validated copy
               /\ ml'.waits[w].promise.state = "fulfilled" =>
                      /\ ml'.waits[w].response # NoValue
                      /\ ValidatedCopyOf(Stored(ml'), ml'.waits[w].response[1])
    /\ Len(ml'.waits) > Len(ml.waits) =>
           LET call == ml'.waits[Len(ml'.waits)]
           IN IF Length(Get(Stored(ml), "activeOperations")) = 0
              \* no active operations: resolved, no call of the client
              THEN /\ call.promise = Fulfilled
                   /\ ~call.called
                   /\ ml'.handled = ml.handled
                   /\ ml'.theModel = ml.theModel
              ELSE /\ call.promise = Pending
                   /\ ml'.theModel = ml.theModel

\* C30: a Model object always holds a validated server response: after any
\* sequence of waitForUnlocked calls, whether handleOperation resolves with a
\* valid response, resolves with an invalid one, or rejects, the stored model
\* has non-empty name, createTime, updateTime, displayName and etag; a failed
\* call leaves the stored model unchanged, a successful one replaces it with
\* the validated copy of the response, and a call on a model with no active
\* operations resolves without calling the client and without changing the
\* model.
C30_ModelHoldsValidatedResponse ==
    /\ []HoldsValidated
    /\ [][ml.theModel # NoValue => WaitStep]_vars

\* two calls on a locked model: the first got an invalid response and was
\* rejected, the second a valid one that replaced the stored model
C30_Witness ==
    /\ ml.theModel # NoValue
    /\ Len(ml.waits) = 2
    /\ ml.waits[1].promise.state = "rejected"
    /\ ml.waits[1].response # NoValue
    /\ InvalidResponse(ml.waits[1].response[1])
    /\ ml.waits[2].promise = Fulfilled
    /\ ml.waits[2].called
    /\ Stored(ml) # Cloned(ml.response[1])

(***************************************************************************)
(* Several calls of evaluateConditions on one evaluator, interleaved       *)
(***************************************************************************)
MaxCalls == 2   \* calls under way at once

\* what a call keeps to itself: its two arguments and its locals, those of
\* the functions it has called included.  ConditionEvaluator has no field.
CallLocals ==
    [namedConditions |-> namedConditions, context |-> context, pc |-> pc,
     idx |-> idx, evaluatedConditions |-> evaluatedConditions, stack |-> stack,
     ret |-> ret, trace |-> trace]

\* a call that has not run yet
Started(input) ==
    [namedConditions |-> input.namedConditions, context |-> input.context,
     pc |-> "running", idx |-> 1, evaluatedConditions |-> <<>>, stack |-> <<>>,
     ret |-> NoValue, trace |-> <<>>]

\* others[i] is the i-th call: the one that runs, whose locals are the
\* variables, or one that waits with its locals; interleaved tells whether
\* it has been made to wait between two of its steps
Active(interleaved) == [active |-> TRUE, interleaved |-> interleaved, locals |-> <<>>]

Suspended(locals, interleaved) ==
    [active |-> FALSE, interleaved |-> interleaved, locals |-> locals]

ActiveCall == CHOOSE i \in DOMAIN others : others[i].active

\* variant of Switch in which the Map is a field of the evaluator: the call
\* that goes on finds the entries of the one that waits
SwitchSharedMap(k) ==
    /\ k \in DOMAIN others
    /\ ~others[k].active
    /\ others[k].locals.pc = "running"
    /\ others' = [others EXCEPT
           ![ActiveCall] = Suspended(CallLocals, @.interleaved \/ (Running /\ trace # <<>>)),
           ![k] = Active(@.interleaved)]
    /\ namedConditions' = others[k].locals.namedConditions
    /\ context' = others[k].locals.context
    /\ pc' = others[k].locals.pc
    /\ idx' = others[k].locals.idx
    /\ stack' = others[k].locals.stack
    /\ ret' = others[k].locals.ret
    /\ trace' = others[k].locals.trace
    /\ UNCHANGED <<evaluatedConditions, fingerprint64, ml>>

\* the call that runs is made to wait where it is and the k-th goes on
\* where it was
Switch(k) ==
    /\ k \in DOMAIN others
    /\ ~others[k].active
    /\ others[k].locals.pc = "running"
    /\ others' = [others EXCEPT
           ![ActiveCall] = Suspended(CallLocals, @.interleaved \/ (Running /\ trace # <<>>)),
           ![k] = Active(@.interleaved)]
    /\ namedConditions' = others[k].locals.namedConditions
    /\ context' = others[k].locals.context
    /\ pc' = others[k].locals.pc
    /\ idx' = others[k].locals.idx
    /\ evaluatedConditions' = others[k].locals.evaluatedConditions
    /\ stack' = others[k].locals.stack
    /\ ret' = others[k].locals.ret
    /\ trace' = others[k].locals.trace
    /\ UNCHANGED <<fingerprint64, ml>>

\* a list with junctions, one with a percent condition and a custom signal
\* under one name, one with a regular expression that throws
JunctionList ==
    <<[name |-> "a", condition |-> And(<<True, Or(<<False, True>>)>>)]>>

LeafList ==
    <<[name |-> "b", condition |-> Percent("LESS_OR_EQUAL", 5)],
      [name |-> "b", condition |-> Custom("STRING_CONTAINS", "k", << <<"1">> >>)]>>

ThrowingList == <<[name |-> "b", condition |-> Or(<<False, InvalidRegex>>)]>>

OtherContext == [k |-> StringValue(<<"a">>)]

ConcurrentInputs ==
    { [namedConditions |-> JunctionList, context |-> FullContext],
      [namedConditions |-> LeafList, context |-> FullContext],
      [namedConditions |-> LeafList, context |-> OtherContext],
      [namedConditions |-> ThrowingList, context |-> OtherContext] }

InitConcurrent ==
    \E inputs \in SeqsUpTo(ConcurrentInputs, MaxCalls) \ {<<>>} :
        /\ namedConditions = inputs[1].namedConditions
        /\ context = inputs[1].context
        /\ fingerprint64 = [s \in HashedStrings |-> <<0, 0, 5>>]
        /\ pc = "running"
        /\ idx = 1
        /\ evaluatedConditions = <<>>
        /\ stack = <<>>
        /\ ret = NoValue
        /\ trace = <<>>
        /\ others = [i \in 1..Len(inputs) |->
                        IF i = 1 THEN Active(FALSE)
                        ELSE Suspended(Started(inputs[i]), FALSE)]
        /\ ml = NoModel

\* no list drawn here is deep enough for the depth cap
NextConcurrent ==
    \/ EvaluateConditionsCall
    \/ EvaluateConditionsSet
    \/ EvaluateConditionsReturn
    \/ EvaluateConditionJunction
    \/ EvaluateConditionLeaf
    \/ EvaluateConditionReturn
    \/ EvaluateOrConditionNext
    \/ EvaluateOrConditionReturn
    \/ EvaluateAndConditionNext
    \/ EvaluateAndConditionReturn
    \/ \E k \in 1..MaxCalls : Switch(k)

SpecConcurrent == InitConcurrent /\ [][NextConcurrent]_vars

\* the i-th call, whether it runs or waits
CallAt(i) == IF others[i].active THEN CallLocals ELSE others[i].locals

InputsOf(i) == <<CallAt(i).namedConditions, CallAt(i).context>>

\* what a call hands to its caller: the Map, or an exception
OutcomeOf(call) ==
    IF call.pc = "thrown" THEN [pc |-> "thrown"]
    ELSE [pc |-> "returned", evaluatedConditions |-> call.evaluatedConditions]

\* what evaluateConditions gives when nothing else runs: the loop from its
\* i-th element on, with the Map built so far
RECURSIVE Alone(_, _, _, _)
Alone(list, ctx, i, map) ==
    IF i > Len(list) THEN [pc |-> "returned", evaluatedConditions |-> map]
    ELSE LET result == evaluateCondition(list[i].condition, ctx, 0)
         IN  IF ~result.ok THEN [pc |-> "thrown"]
             ELSE Alone(list, ctx, i + 1, MapSet(map, list[i].name, result.val))

EachAsAlone ==
    \A i \in DOMAIN others :
        CallAt(i).pc \in {"returned", "thrown"} =>
            OutcomeOf(CallAt(i)) = Alone(CallAt(i).namedConditions, CallAt(i).context, 1, <<>>)

InputsKept == \A i \in DOMAIN others : InputsOf(i)' = InputsOf(i)

\* C24: concurrent invocations do not interfere: when two or more calls of
\* evaluateConditions on one evaluator, on the same or on different lists and
\* contexts, are interleaved step by step in any order, each gives what it
\* gives when it runs alone, and no step changes the condition trees or the
\* context of any call.
C24_NoInterference == []EachAsAlone /\ [][InputsKept]_vars

\* two calls, each made to wait in the middle of its walk, have both returned,
\* with different Maps
C24_Witness ==
    /\ Len(others) = 2
    /\ \A i \in DOMAIN others : CallAt(i).pc = "returned" /\ others[i].interleaved
    /\ CallAt(1).evaluatedConditions # CallAt(2).evaluatedConditions
====
